---- MODULE Spec2Model ----
(***************************************************************************)
(* A model of the RideReady recommendation core:                           *)
(*   src/app.py                      _clean_profile, _to_int, _to_float,   *)
(*                                   _normalize_external, _run_recommend   *)
(*   src/services/recommend_rules.py clamp, validate_profile, the scoring  *)
(*                                   helpers and recommend                 *)
(*                                                                         *)
(* Python values are tagged records of one shape, Python strings are       *)
(* sequences of one-character strings, Python dicts are records whose      *)
(* missing keys hold Absent, and a float is held exactly as a number of    *)
(* tenths.  Scores are exact rationals held as integers over ScoreDen.     *)
(***************************************************************************)
EXTENDS Integers, Sequences, FiniteSets, TLC

VARIABLES
    pc,             \* position of the running operation
    bikes,          \* the catalog as load_bikes() returns it
    profile,        \* the profile mapping as received
    prof,           \* the profile after _clean_profile / validate_profile
    pin_ids,        \* _run_recommend argument
    external_items, \* _run_recommend argument
    picked,         \* _run_recommend: the rule-ranked picks
    seen,           \* _run_recommend: the dedup keys emitted so far
    out,            \* _run_recommend: the merged list
    items,          \* _run_recommend: the returned list
    filtered,       \* recommend: the records that pass the type filter
    ranked,         \* recommend: (score, record) pairs
    shortlist,      \* recommend: the returned list
    raised,         \* the exception that left the operation, or "none"
    message,        \* api_chat / make_plan: the chat message
    llm,            \* make_plan: what the OpenAI call does
    plan,           \* api_chat: the plan make_plan returned
    response        \* api_recommend / api_chat: the JSON body returned

vars == <<pc, bikes, profile, prof, pin_ids, external_items, picked, seen,
          out, items, filtered, ranked, shortlist, raised, message, llm, plan,
          response>>

\* what only the HTTP handlers and the planners write
apiVars == <<message, llm, plan, response>>

-----------------------------------------------------------------------------
(* Python values *)

Absent == [t |-> "absent", n |-> 0, s |-> <<>>, l |-> <<>>]
None == [t |-> "none", n |-> 0, s |-> <<>>, l |-> <<>>]
PyInt(n) == [t |-> "int", n |-> n, s |-> <<>>, l |-> <<>>]
\* a float, n tenths
PyFloat(n) == [t |-> "float", n |-> n, s |-> <<>>, l |-> <<>>]
PyInf == [t |-> "inf", n |-> 0, s |-> <<>>, l |-> <<>>]
PyTrue == [t |-> "bool", n |-> 1, s |-> <<>>, l |-> <<>>]
PyFalse == [t |-> "bool", n |-> 0, s |-> <<>>, l |-> <<>>]
PyStr(s) == [t |-> "str", n |-> 0, s |-> s, l |-> <<>>]
PyList(l) == [t |-> "list", n |-> 0, s |-> <<>>, l |-> l]

\* d.get(key): a missing key reads as None
Get(v) == IF v.t = "absent" THEN None ELSE v

\* d.get(key, default)
GetOr(v, default) == IF v.t = "absent" THEN default ELSE v

\* Python truthiness, as `x or y` and `if x` use it
Truthy(v) ==
    CASE v.t \in {"absent", "none"} -> FALSE
      [] v.t \in {"int", "float", "bool"} -> v.n # 0
      [] v.t = "inf" -> TRUE
      [] v.t = "str" -> v.s # <<>>
      [] v.t = "list" -> v.l # <<>>

\* x or y
Or(x, y) == IF Truthy(x) THEN x ELSE y

-----------------------------------------------------------------------------
(* Python strings *)

UPPER == <<"A","B","C","D","E","F","G","H","I","J","K","L","M",
           "N","O","P","Q","R","S","T","U","V","W","X","Y","Z">>
LOWER == <<"a","b","c","d","e","f","g","h","i","j","k","l","m",
           "n","o","p","q","r","s","t","u","v","w","x","y","z">>

LowerChar(c) ==
    IF \E i \in DOMAIN UPPER : UPPER[i] = c
    THEN LOWER[CHOOSE i \in DOMAIN UPPER : UPPER[i] = c]
    ELSE c

\* str.lower()
Lower(s) == [i \in DOMAIN s |-> LowerChar(s[i])]

\* str.split()[0]: the first whitespace-delimited token; <<>> stands for the
\* IndexError of a string with no token
RECURSIVE SkipSpaces(_)
SkipSpaces(s) ==
    IF s # <<>> /\ Head(s) = " " THEN SkipSpaces(Tail(s)) ELSE s

RECURSIVE TakeToken(_)
TakeToken(s) ==
    IF s = <<>> \/ Head(s) = " " THEN <<>> ELSE <<Head(s)>> \o TakeToken(Tail(s))

SplitFirst(s) == TakeToken(SkipSpaces(s))

-----------------------------------------------------------------------------
(* Python conversions.  A result is [raised, v]: raised names the exception,
   "none" when the call returned v. *)

Ok(v) == [raised |-> "none", v |-> v]
Raise(e, v) == [raised |-> e, v |-> v]

DIGITS == <<"0","1","2","3","4","5","6","7","8","9">>

IsDigit(c) == \E i \in DOMAIN DIGITS : DIGITS[i] = c
DigitVal(c) == (CHOOSE i \in DOMAIN DIGITS : DIGITS[i] = c) - 1

AllDigits(s) == s # <<>> /\ \A i \in DOMAIN s : IsDigit(s[i])

RECURSIVE DigitsVal(_)
DigitsVal(s) ==
    IF s = <<>> THEN 0
    ELSE 10 * DigitsVal(SubSeq(s, 1, Len(s) - 1)) + DigitVal(s[Len(s)])

\* str.strip() of spaces
RECURSIVE Strip(_)
Strip(s) ==
    IF s # <<>> /\ Head(s) = " " THEN Strip(Tail(s))
    ELSE IF s # <<>> /\ s[Len(s)] = " " THEN Strip(SubSeq(s, 1, Len(s) - 1))
    ELSE s

HasSign(s) == s # <<>> /\ Head(s) \in {"-", "+"}
Unsigned(s) == IF HasSign(s) THEN Tail(s) ELSE s
SignOf(s) == IF s # <<>> /\ Head(s) = "-" THEN -1 ELSE 1

\* float -> int truncates toward zero; n is in tenths
Trunc(n) == IF n >= 0 THEN n \div 10 ELSE -((-n) \div 10)

\* int(val)
PyIntOf(val) ==
    CASE val.t \in {"int", "bool"} -> Ok(val.n)
      [] val.t = "float" -> Ok(Trunc(val.n))
      [] val.t = "inf" -> Raise("OverflowError", 0)
      [] val.t = "str" ->
           LET u == Strip(val.s) IN
           IF AllDigits(Unsigned(u))
           THEN Ok(SignOf(u) * DigitsVal(Unsigned(u)))
           ELSE Raise("ValueError", 0)
      [] OTHER -> Raise("TypeError", 0)

\* the position of the decimal point of s, 0 when it has none
DotAt(s) == IF \E i \in DOMAIN s : s[i] = "."
            THEN CHOOSE i \in DOMAIN s : s[i] = "." /\ \A j \in 1..(i - 1) : s[j] # "."
            ELSE 0

\* float(val) of a string: digits, an optional point and at most one fraction
\* digit (what a number of tenths holds), and "inf"
FloatOfStr(s) ==
    LET u == Strip(s)
        b == Unsigned(u)
        d == DotAt(b)
        whole == IF d = 0 THEN b ELSE SubSeq(b, 1, d - 1)
        frac == IF d = 0 THEN <<>> ELSE SubSeq(b, d + 1, Len(b))
    IN  IF Lower(b) \in {<<"i","n","f">>, <<"i","n","f","i","n","i","t","y">>}
        THEN Ok(PyInf)
        ELSE IF AllDigits(whole) /\ Len(frac) <= 1 /\ (frac = <<>> \/ AllDigits(frac))
        THEN Ok(PyFloat(SignOf(u) * (10 * DigitsVal(whole) + DigitsVal(frac))))
        ELSE Raise("ValueError", None)

\* float(val)
PyFloatOf(val) ==
    CASE val.t \in {"int", "bool"} -> Ok(PyFloat(10 * val.n))
      [] val.t \in {"float", "inf"} -> Ok(val)
      [] val.t = "str" -> FloatOfStr(val.s)
      [] OTHER -> Raise("TypeError", None)

Max(a, b) == IF a >= b THEN a ELSE b
Min(a, b) == IF a <= b THEN a ELSE b

-----------------------------------------------------------------------------
(* The strings of the profile enums *)

no_experience == <<"n","o","_","e","x","p","e","r","i","e","n","c","e">>
little_experience == <<"l","i","t","t","l","e","_","e","x","p","e","r","i","e","n","c","e">>
cruiser == <<"c","r","u","i","s","e","r">>
standard == <<"s","t","a","n","d","a","r","d">>
sportbike == <<"s","p","o","r","t","b","i","k","e">>
naked == <<"n","a","k","e","d">>
adventure == <<"a","d","v","e","n","t","u","r","e">>
touring == <<"t","o","u","r","i","n","g">>
dual_sport == <<"d","u","a","l","_","s","p","o","r","t">>

\* recommend_rules.ALLOWED_TYPES
ALLOWED_TYPES == {cruiser, standard, sportbike, naked, adventure, touring, dual_sport}

EXPERIENCES == {no_experience, little_experience}

-----------------------------------------------------------------------------
(* The profile normalizers.  A profile is a record of Python values with the
   keys experience, height_cm, budget_usd, bike_types and k (validate_profile's
   constant "riding_style": [] is not carried). *)

Profile(e, h, b, bt, k) ==
    [experience |-> e, height_cm |-> h, budget_usd |-> b, bike_types |-> bt, k |-> k]

\* app._to_int
_to_int(val, default) ==
    IF val.t = "none" THEN Ok(default)
    ELSE LET a == PyIntOf(val) IN
         IF a.raised = "none" THEN Ok(PyInt(a.v))
         ELSE IF a.raised \in {"ValueError", "TypeError"}
         THEN LET f == PyFloatOf(val)
                  b == PyIntOf(f.v)
              IN  IF f.raised = "none" /\ b.raised = "none"
                  THEN Ok(PyInt(b.v))
                  ELSE Ok(default)
         ELSE Raise(a.raised, None)

\* app._to_float
_to_float(val, default) ==
    IF val.t = "none" THEN Ok(default)
    ELSE LET f == PyFloatOf(val) IN
         IF f.raised = "none" THEN Ok(f.v)
         ELSE IF f.raised \in {"ValueError", "TypeError"} THEN Ok(default)
         ELSE Raise(f.raised, None)

\* the k of app._clean_profile: max(1, min(6, n))
CleanK(n) == Max(1, Min(6, n))

\* app._clean_profile
_clean_profile(data) ==
    LET h == _to_int(Get(data.height_cm), PyInt(170))
        b == _to_float(Get(data.budget_usd), PyFloat(9999990))
        k == _to_int(Get(data.k), PyInt(2))
    IN  IF h.raised # "none" THEN Raise(h.raised, data)
        ELSE IF b.raised # "none" THEN Raise(b.raised, data)
        ELSE IF k.raised # "none" THEN Raise(k.raised, data)
        ELSE Ok(Profile(Or(Get(data.experience), PyStr(no_experience)),
                        h.v, b.v,
                        Or(Get(data.bike_types), PyList(<<>>)),
                        PyInt(CleanK(k.v.n))))

\* recommend_rules.clamp
clamp(n, lo, hi) ==
    LET i == PyIntOf(n) IN
    IF i.raised = "none" THEN Ok(Max(lo, Min(hi, i.v))) ELSE i

\* the [:5] of validate_profile's bike_types
FirstFive(l) == SubSeq(l, 1, Min(5, Len(l)))

\* t in ALLOWED_TYPES, for a hashable t
InAllowed(t) == t.t = "str" /\ t.s \in ALLOWED_TYPES

\* recommend_rules.validate_profile
validate_profile(p) ==
    LET e0 == GetOr(p.experience, PyStr(no_experience))
        exp == IF e0 \in {PyStr(no_experience), PyStr(little_experience)}
               THEN e0 ELSE PyStr(no_experience)
        h == clamp(GetOr(p.height_cm, PyInt(170)), 140, 210)
        b == clamp(GetOr(p.budget_usd, PyInt(6000)), 1000, 20000)
        k == clamp(GetOr(p.k, PyInt(3)), 1, 6)
        bt0 == Or(Get(p.bike_types), PyList(<<>>))
        bt == IF bt0.t = "list" THEN bt0.l ELSE <<>>
    IN  IF h.raised # "none" THEN Raise(h.raised, p)
        ELSE IF b.raised # "none" THEN Raise(b.raised, p)
        ELSE IF k.raised # "none" THEN Raise(k.raised, p)
        ELSE IF \E i \in DOMAIN bt : bt[i].t = "list" THEN Raise("TypeError", p)
        ELSE Ok(Profile(exp, PyInt(h.v), PyInt(b.v),
                        PyList(FirstFive(SelectSeq(bt, InAllowed))),
                        PyInt(k.v)))

-----------------------------------------------------------------------------
(* Catalog records, external items and result items.  Every dict is a record
   of Python values; a key the dict lacks holds Absent.  The keys that are
   copied and never read (official_url, mfr_domain, image_query, local_image)
   are not carried. *)

Dict(id, name, manufacturer, category, engine_cc, seat_height_mm, wet_weight_kg, abs, max_speed_mph, zero_to_sixty_s, top_speed_mph, reasons) ==
    [id |-> id, name |-> name, manufacturer |-> manufacturer, category |-> category,
     engine_cc |-> engine_cc, seat_height_mm |-> seat_height_mm,
     wet_weight_kg |-> wet_weight_kg, abs |-> abs, max_speed_mph |-> max_speed_mph,
     zero_to_sixty_s |-> zero_to_sixty_s, top_speed_mph |-> top_speed_mph,
     reasons |-> reasons]

\* a record of data/bikes.json
Bike(id, name, manufacturer, category, engine_cc, seat_height_mm, wet_weight_kg, abs, max_speed_mph, zero_to_sixty_s) ==
    Dict(id, name, manufacturer, category, engine_cc, seat_height_mm, wet_weight_kg,
         abs, max_speed_mph, zero_to_sixty_s, Absent, Absent)

\* the "specs" of an external item: t is "dict", or "absent" for no such key
Specs(t, category, engine_cc, seat_height_mm, wet_weight_kg, abs, max_speed_mph, zero_to_sixty_s) ==
    [t |-> t, category |-> category, engine_cc |-> engine_cc,
     seat_height_mm |-> seat_height_mm, wet_weight_kg |-> wet_weight_kg, abs |-> abs,
     max_speed_mph |-> max_speed_mph, zero_to_sixty_s |-> zero_to_sixty_s]

NoSpecs == Specs("absent", Absent, Absent, Absent, Absent, Absent, Absent, Absent)

\* an element of external_items
External(label, name, manufacturer, category, specs, top_speed_mph, zero_to_sixty_s) ==
    [label |-> label, name |-> name, manufacturer |-> manufacturer,
     category |-> category, specs |-> specs, top_speed_mph |-> top_speed_mph,
     zero_to_sixty_s |-> zero_to_sixty_s]

Motorcycle == <<"M","o","t","o","r","c","y","c","l","e">>

\* the guess that returns the label whole, without the split
_guess_manufacturer_whole_label(label) ==
    IF ~Truthy(label) THEN Ok(None)
    ELSE IF label.t # "str" THEN Raise("AttributeError", None)
    ELSE Ok(label)

\* app._guess_manufacturer
_guess_manufacturer(label) ==
    IF ~Truthy(label) THEN Ok(None)
    ELSE IF label.t # "str" THEN Raise("AttributeError", None)
    ELSE IF SplitFirst(label.s) = <<>> THEN Raise("IndexError", None)
    ELSE Ok(PyStr(SplitFirst(label.s)))

\* app._normalize_external
_normalize_external(ext) ==
    LET specs == ext.specs
        label == Or(Or(Get(ext.label), Get(ext.name)), PyStr(Motorcycle))
        guess == _guess_manufacturer(label)
    IN  IF ~Truthy(Get(ext.manufacturer)) /\ guess.raised # "none"
        THEN Raise(guess.raised, None)
        ELSE Ok(Dict(None, label,
                     Or(Get(ext.manufacturer), guess.v),
                     Or(Get(specs.category), Get(ext.category)),
                     Get(specs.engine_cc), Get(specs.seat_height_mm),
                     Get(specs.wet_weight_kg), Get(specs.abs),
                     Absent,
                     Or(Get(specs.zero_to_sixty_s), Get(ext.zero_to_sixty_s)),
                     Or(Get(specs.max_speed_mph), Get(ext.top_speed_mph)),
                     Absent))

-----------------------------------------------------------------------------
(* The merge of _run_recommend *)

KeyId(id) == [kind |-> "id", id |-> id, manufacturer |-> <<>>, name |-> <<>>]
KeyMk(m, n) == [kind |-> "mk", id |-> None, manufacturer |-> m, name |-> n]

\* _run_recommend._key, for a dict
_key(it) ==
    IF Truthy(Get(it.id)) THEN Ok(KeyId(it.id))
    ELSE LET m == GetOr(it.manufacturer, PyStr(<<>>))
             n == GetOr(it.name, PyStr(<<>>))
         IN  IF m.t # "str" \/ n.t # "str" THEN Raise("AttributeError", KeyId(None))
             ELSE Ok(KeyMk(Lower(m.s), Lower(n.s)))

\* _add without the `k in seen` test
_add_unchecked(st, it) ==
    LET k == _key(it) IN
    IF k.raised # "none" THEN [st EXCEPT !.raised = k.raised]
    ELSE [st EXCEPT !.seen = st.seen \cup {k.v}, !.out = Append(st.out, it)]

\* _run_recommend._add on st = [seen, out, raised]
_add(st, it) ==
    LET k == _key(it) IN
    IF k.raised # "none" THEN [st EXCEPT !.raised = k.raised]
    ELSE IF k.v \in st.seen THEN st
    ELSE [st EXCEPT !.seen = st.seen \cup {k.v}, !.out = Append(st.out, it)]

\* by_id.get(pid): the dict comprehension keeps the last record of an id and no
\* record with a falsy id
IdHits(bs, pid) == {i \in DOMAIN bs : Truthy(Get(bs[i].id)) /\ bs[i].id = pid}

by_id_get(bs, pid) ==
    IF IdHits(bs, pid) = {} THEN [found |-> FALSE, b |-> Absent]
    ELSE [found |-> TRUE,
          b |-> bs[CHOOSE i \in IdHits(bs, pid) : \A j \in IdHits(bs, pid) : j <= i]]

\* the pins looked up among the rule picks instead of the whole catalog
AddPins_from_picked(st, bs, pids) ==
    LET RECURSIVE Fold(_, _)
        Fold(a, l) ==
            IF l = <<>> THEN a
            ELSE LET g == by_id_get(picked, Head(l)) IN
                 Fold(IF g.found THEN _add(a, g.b) ELSE a, Tail(l))
    IN  Fold(st, pids)

\* step 4: for pid in pin_ids
RECURSIVE AddPins(_, _, _)
AddPins(st, bs, pids) ==
    IF pids = <<>> THEN st
    ELSE LET g == by_id_get(bs, Head(pids)) IN
         AddPins(IF g.found THEN _add(st, g.b) ELSE st, bs, Tail(pids))

\* step 5: for ext in external_items, under try/except Exception
RECURSIVE AddExternals(_, _)
AddExternals(st, exts) ==
    IF exts = <<>> THEN st
    ELSE LET norm == _normalize_external(Head(exts))
             nxt == IF norm.raised # "none" THEN st ELSE _add(st, norm.v)
         IN  AddExternals(IF nxt.raised # "none" THEN st ELSE nxt, Tail(exts))

\* the picks put before what the earlier sources gave
AddPicked_first(st, its) ==
    LET RECURSIVE Fold(_, _)
        Fold(a, l) == IF l = <<>> \/ a.raised # "none" THEN a
                      ELSE Fold(_add(a, Head(l)), Tail(l))
        own == Fold([seen |-> {}, out |-> <<>>, raised |-> "none"], its)
        RECURSIVE Rest(_, _)
        Rest(a, l) == IF l = <<>> THEN a ELSE Rest(_add(a, Head(l)), Tail(l))
    IN  IF own.raised # "none" THEN [st EXCEPT !.raised = own.raised]
        ELSE Rest(own, st.out)

\* step 6: for it in picked
RECURSIVE AddPicked(_, _)
AddPicked(st, its) ==
    IF its = <<>> \/ st.raised # "none" THEN st
    ELSE AddPicked(_add(st, Head(its)), Tail(its))

\* out[:k + 1]
FirstK_off_by_one(o, k) == SubSeq(o, 1, Min(k + 1, Len(o)))

\* step 7: out[:k]
FirstK(o, k) == SubSeq(o, 1, Min(k, Len(o)))

-----------------------------------------------------------------------------
(* The inputs of the merge *)

yamaha_r3 == <<"y","a","m","a","h","a","_","r","3">>
honda_rebel300 == <<"h","o","n","d","a","_","r","e","b","e","l","3","0","0">>
no_such_id == <<"z","x","1","0">>
Yamaha == <<"Y","a","m","a","h","a">>
Honda == <<"H","o","n","d","a">>
Kawasaki == <<"K","a","w","a","s","a","k","i">>
KAWASAKI == <<"K","A","W","A","S","A","K","I">>
R3 == <<"R","3">>
Rebel_300 == <<"R","e","b","e","l"," ","3","0","0">>
Z400 == <<"Z","4","0","0">>
BMW == <<"B","M","W">>
bmw == <<"b","m","w">>
BMW_G == <<"B","M","W"," ","G">>
bmw_g == <<"b","m","w"," ","g">>
Blank == <<" ">>
Has_ABS == <<"H","a","s"," ","A","B","S">>
Lightweight == <<"L","i","g","h","t","w","e","i","g","h","t">>
Seat_height == <<"S","e","a","t"," ","h","e","i","g","h","t"," ","c","l","o","s","e"," ","t","o"," ","e","s","t","i","m","a","t","e","d"," ","i","n","s","e","a","m">>

\* the pins, external items and picks of one call, together
MaxInputs == 4

SeqsUpTo(S, n) == UNION {[1..m -> S] : m \in 0..n}

R3Bike == Bike(PyStr(yamaha_r3), PyStr(R3), PyStr(Yamaha), PyStr(sportbike),
               PyInt(321), PyInt(780), PyInt(169), PyTrue, PyInt(112), PyFloat(52))
RebelBike == Bike(PyStr(honda_rebel300), PyStr(Rebel_300), PyStr(Honda), PyStr(cruiser),
                  PyInt(286), PyInt(690), PyInt(165), PyTrue, PyInt(85), PyFloat(78))

\* load_bikes() of the merge runs
Catalog == <<R3Bike, RebelBike>>

\* pin ids: two of the catalog and one of no record
PinPool == {PyStr(yamaha_r3), PyStr(honda_rebel300), PyStr(no_such_id)}

\* external items: a label without manufacturer, the same model spelled in
\* another case, a model the rule picks also hold, and a label with no token
ExternalPool ==
    {External(PyStr(BMW_G), Absent, Absent, Absent, NoSpecs, Absent, Absent),
     External(Absent, PyStr(bmw_g), PyStr(bmw), Absent, NoSpecs, Absent, Absent),
     External(Absent, PyStr(Z400), PyStr(KAWASAKI), Absent, NoSpecs, Absent, Absent),
     External(PyStr(Blank), Absent, Absent, Absent, NoSpecs, Absent, Absent)}

\* what pick_reasons may return: catalog records with their reasons, a pick
\* that carries no id, and one whose manufacturer is null as well
PickedPool ==
    {[R3Bike EXCEPT !.reasons = PyList(<<PyStr(Has_ABS), PyStr(Lightweight)>>)],
     [RebelBike EXCEPT !.reasons = PyList(<<PyStr(Has_ABS)>>)],
     Dict(None, PyStr(Z400), PyStr(Kawasaki), PyStr(naked), PyInt(399), PyInt(785),
          PyInt(167), PyTrue, Absent, Absent, Absent, PyList(<<>>)),
     Dict(None, PyStr(R3), None, PyStr(sportbike), Absent, Absent,
          Absent, Absent, Absent, Absent, Absent, Absent)}

\* the k of the request: below, inside and above 1..6
MergeKPool == {PyInt(0), PyInt(2), PyInt(9)}

NoProfile == Profile(Absent, Absent, Absent, Absent, Absent)

\* the patch of an UPDATE_PROFILE action; {} is the patch of no key
Patch(experience, height_cm, budget_usd, bike_types, k, engine_cc_min) ==
    [experience |-> experience, height_cm |-> height_cm, budget_usd |-> budget_usd,
     bike_types |-> bike_types, k |-> k, engine_cc_min |-> engine_cc_min]

NoPatch == Patch(Absent, Absent, Absent, Absent, Absent, Absent)

\* an action of a plan: pin_ids and items are Python values, items a list of
\* external items
Action(type, patch, pins, its, description, notes, model) ==
    [type |-> type, patch |-> patch, pin_ids |-> pins, items |-> its,
     description |-> description, notes |-> notes, model |-> model]

\* the plan make_plan returns
Plan(topic, actions) == [topic |-> topic, actions |-> actions]

NoPlan == Plan(Absent, <<>>)

\* the JSON body of a response: of /api/recommend {"items"}, of /api/chat
\* {"topic", "message", "actions", "items"}; a key the body lacks holds Absent
Response(t, topic, actions, its, count) ==
    [t |-> t, topic |-> topic, actions |-> actions, items |-> its, count |-> count]

NoResponse == Response("none", Absent, <<>>, <<>>, Absent)

\* what the OpenAI call of make_plan does: t is "off" (disabled, no key or no
\* client), "plan" (the reply parses to the JSON object plan), "unparsable",
\* "quota", "auth" or "error" (the call raises)
Llm(t, p) == [t |-> t, plan |-> p]

LlmOff == Llm("off", NoPlan)

\* no chat message, no plan and no response: a call below the HTTP handlers
NoRequest ==
    /\ message = <<>>
    /\ llm = LlmOff
    /\ plan = NoPlan
    /\ response = NoResponse

Idle ==
    /\ prof = NoProfile
    /\ seen = {}
    /\ out = <<>>
    /\ items = <<>>
    /\ filtered = <<>>
    /\ ranked = <<>>
    /\ shortlist = <<>>
    /\ raised = "none"

\* a call _run_recommend(profile, pin_ids, external_items)
Init ==
    /\ pc = "run_recommend"
    /\ bikes = Catalog
    /\ profile \in {Profile(Absent, Absent, Absent, Absent, k) : k \in MergeKPool}
    /\ pin_ids \in SeqsUpTo(PinPool, MaxInputs)
    /\ external_items \in SeqsUpTo(ExternalPool, MaxInputs - Len(pin_ids))
    /\ picked \in SeqsUpTo(PickedPool, MaxInputs - Len(pin_ids) - Len(external_items))
    /\ Idle
    /\ NoRequest

MergeState == [seen |-> seen, out |-> out, raised |-> raised]

\* app.py 49-107: sanitize the profile, then the pins
Pins ==
    /\ pc = "run_recommend"
    /\ LET c == _clean_profile(profile)
           st == AddPins(MergeState, bikes, pin_ids)
       IN  IF c.raised # "none"
           THEN /\ raised' = c.raised
                /\ pc' = "raised"
                /\ UNCHANGED <<prof, seen, out>>
           ELSE /\ prof' = c.v
                /\ seen' = st.seen
                /\ out' = st.out
                /\ raised' = st.raised
                /\ pc' = "externals"
    /\ UNCHANGED <<bikes, profile, pin_ids, external_items, picked, items,
                   filtered, ranked, shortlist>>
    /\ UNCHANGED apiVars

\* app.py 109-116
Externals ==
    /\ pc = "externals"
    /\ LET st == AddExternals(MergeState, external_items)
       IN  /\ seen' = st.seen
           /\ out' = st.out
    /\ pc' = "picked"
    /\ UNCHANGED <<bikes, profile, prof, pin_ids, external_items, picked, items,
                   filtered, ranked, shortlist, raised>>
    /\ UNCHANGED apiVars

\* app.py 118-120
Picked ==
    /\ pc = "picked"
    /\ LET st == AddPicked(MergeState, picked)
       IN  /\ seen' = st.seen
           /\ out' = st.out
           /\ raised' = st.raised
           /\ pc' = IF st.raised # "none" THEN "raised" ELSE "enforce_k"
    /\ UNCHANGED <<bikes, profile, prof, pin_ids, external_items, picked, items,
                   filtered, ranked, shortlist>>
    /\ UNCHANGED apiVars

\* app.py 122-124
EnforceK ==
    /\ pc = "enforce_k"
    /\ items' = FirstK(out, prof.k.n)
    /\ pc' = "returned"
    /\ UNCHANGED <<bikes, profile, prof, pin_ids, external_items, picked, seen, out,
                   filtered, ranked, shortlist, raised>>
    /\ UNCHANGED apiVars

Next == Pins \/ Externals \/ Picked \/ EnforceK

Spec == Init /\ [][Next]_vars

-----------------------------------------------------------------------------
(* What the merge is to return, stated from its inputs *)

\* the dedup key: the id when there is one, else lower-cased (manufacturer, name)
DedupKey(it) ==
    IF Get(it.id) # None
    THEN [id |-> it.id, mk |-> <<>>]
    ELSE [id |-> None, mk |-> <<Lower(GetOr(it.manufacturer, PyStr(<<>>)).s),
                                Lower(GetOr(it.name, PyStr(<<>>)).s)>>]

HasDedupKey(it) ==
    \/ Get(it.id) # None
    \/ GetOr(it.manufacturer, PyStr(<<>>)).t = "str" /\ GetOr(it.name, PyStr(<<>>)).t = "str"

NoTwoWithOneKey(l) ==
    \A i, j \in DOMAIN l : i # j => DedupKey(l[i]) # DedupKey(l[j])

Resolvable(pid) == \E i \in DOMAIN bikes : bikes[i].id = pid
CatalogRecord(pid) == bikes[CHOOSE i \in DOMAIN bikes : bikes[i].id = pid]

\* the catalog records of the pins that resolve, in pin order
ResolvedPins ==
    LET r == SelectSeq(pin_ids, Resolvable) IN [n \in DOMAIN r |-> CatalogRecord(r[n])]

UsableExternal(e) ==
    /\ _normalize_external(e).raised = "none"
    /\ HasDedupKey(_normalize_external(e).v)

\* the external items that normalise, normalised, in their order
NormalisedExternals ==
    LET r == SelectSeq(external_items, UsableExternal)
    IN  [n \in DOMAIN r |-> _normalize_external(r[n]).v]

\* the three sources in priority order
Candidates == ResolvedPins \o NormalisedExternals \o picked

\* the positions of c whose key no earlier position has
FirstOfKey(c) == {i \in DOMAIN c : \A j \in 1..(i - 1) : DedupKey(c[j]) # DedupKey(c[i])}

\* the n-th smallest element of the set of positions f
Nth(f, n) == CHOOSE i \in f : Cardinality({j \in f : j < i}) = n - 1

\* U: the number of distinct dedup keys among the candidates c
UniqueCandidates(c) == Cardinality({DedupKey(c[i]) : i \in DOMAIN c})

\* k: the profile's result count clamped to 1..6
RequestedK ==
    LET n == IF profile.k.t = "int" THEN profile.k.n ELSE 2
    IN  IF n < 1 THEN 1 ELSE IF n > 6 THEN 6 ELSE n

\* C1: the returned list, and the merged list at every step, holds no two
\* items with the same dedup key (the id, or the lower-cased manufacturer and
\* name); a key that was emitted is not emitted again by a later source.
C1_NoDuplicateKeys ==
    /\ NoTwoWithOneKey(out)
    /\ pc = "returned" => NoTwoWithOneKey(items)

\* a returned list of two or more items where a key came from two sources
C1_Witness ==
    /\ pc = "returned"
    /\ Len(items) >= 2
    /\ \E i \in DOMAIN ResolvedPins, j \in DOMAIN picked :
          DedupKey(ResolvedPins[i]) = DedupKey(picked[j])
    /\ \E i \in DOMAIN NormalisedExternals, j \in DOMAIN picked :
          DedupKey(NormalisedExternals[i]) = DedupKey(picked[j])

\* C2: the merge returns exactly min(k, U) items, each of them one of the
\* candidates: never more than k, never fewer than are available up to k,
\* and none fabricated.
C2_CapRespected ==
    pc = "returned" =>
        LET c == Candidates IN
        /\ Len(items) = Min(RequestedK, UniqueCandidates(c))
        /\ \A n \in DOMAIN items : \E i \in DOMAIN c : items[n] = c[i]

\* a return that cut the merged list to k
C2_Witness ==
    /\ pc = "returned"
    /\ UniqueCandidates(Candidates) > RequestedK
    /\ Len(items) = RequestedK
    /\ RequestedK = 2

\* C3: the returned list is the candidates in priority order (pins, then
\* externals, then rule picks, each in its input order), with every key kept
\* once at its earliest occurrence, cut to k; a later duplicate neither moves
\* nor replaces the earlier item.
C3_OrderStable ==
    pc = "returned" =>
        LET c == Candidates
            f == FirstOfKey(c)
        IN  /\ Len(items) <= Cardinality(f)
            /\ \A n \in DOMAIN items : items[n] = c[Nth(f, n)]

\* a pin that is also a rule pick is returned once, as the pinned record,
\* ahead of an external item
C3_Witness ==
    /\ pc = "returned"
    /\ Len(items) >= 2
    /\ Len(ResolvedPins) >= 1
    /\ Len(NormalisedExternals) >= 1
    /\ \E j \in DOMAIN picked :
          /\ DedupKey(picked[j]) = DedupKey(ResolvedPins[1])
          /\ picked[j] # ResolvedPins[1]
    /\ items[1] = ResolvedPins[1]
    /\ items[2] = NormalisedExternals[1]

\* C4 as claimed: every pin id that resolves to a catalog record is in the
\* returned list.
C4_EveryPinReturned ==
    pc = "returned" =>
        \A p \in DOMAIN pin_ids :
            Resolvable(pin_ids[p]) => \E n \in DOMAIN items : items[n] = CatalogRecord(pin_ids[p])

\* the distinct resolved pins, in pin order
DistinctPins ==
    LET r == ResolvedPins
        first == {i \in DOMAIN r : \A j \in 1..(i - 1) : r[j] # r[i]}
    IN  [n \in 1..Cardinality(first) |-> r[Nth(first, n)]]

\* C4 as amended: the returned list starts with the first min(k, P) of the P
\* distinct resolved pins, in pin order, whatever the rule picks are, so every
\* resolvable pin is returned when P <= k and the first item is the first
\* resolvable pin; a pin id of no catalog record adds no item and raises
\* nothing.
C4_PinsFirstUpToK ==
    /\ pc = "returned" =>
          /\ LET d == DistinctPins IN
             /\ Len(items) >= Min(RequestedK, Len(d))
             /\ \A n \in 1..Min(RequestedK, Len(d)) : items[n] = d[n]
          /\ \A p \in DOMAIN pin_ids :
                ~Resolvable(pin_ids[p]) => \A n \in DOMAIN items : items[n].id # pin_ids[p]
    /\ pc = "externals" => raised = "none"

\* one resolvable pin and one that does not resolve, with a rule pick of
\* another record ahead of nothing: the pin is first
C4_Witness ==
    /\ pc = "returned"
    /\ \E p \in DOMAIN pin_ids : ~Resolvable(pin_ids[p])
    /\ Len(DistinctPins) = 1
    /\ Len(picked) >= 1
    /\ DedupKey(picked[1]) # DedupKey(DistinctPins[1])
    /\ Len(items) >= 2
    /\ items[1] = DistinctPins[1]

-----------------------------------------------------------------------------
(* The profile normalizers on the mappings a request may hold *)

Little_Experience == <<"L","i","t","t","l","e","_","E","x","p","e","r","i","e","n","c","e">>
expert == <<"e","x","p","e","r","t">>
Sportbike == <<"S","p","o","r","t","b","i","k","e">>
NAKED == <<"N","A","K","E","D">>
scooter == <<"s","c","o","o","t","e","r">>
s175 == <<"1","7","5">>
abc == <<"a","b","c">>
s4 == <<"4">>
s2_5 == <<"2",".","5">>

ExperiencePool ==
    {Absent, None, PyStr(no_experience), PyStr(little_experience),
     PyStr(Little_Experience), PyStr(expert)}

HeightPool ==
    {Absent, None, PyInt(170), PyInt(100), PyInt(500), PyStr(s175), PyStr(abc),
     PyFloat(1759), PyInf}

BudgetPool ==
    {Absent, None, PyInt(6000), PyInt(500), PyInt(50000), PyStr(abc)}

KPool ==
    {Absent, None, PyInt(0), PyInt(3), PyInt(9), PyStr(s4), PyStr(s2_5), PyStr(abc), PyInf}

BikeTypesPool ==
    {Absent, None, PyStr(cruiser),
     PyList(<<PyStr(cruiser)>>),
     PyList(<<PyStr(Sportbike), PyStr(NAKED)>>),
     PyList(<<PyStr(scooter), PyStr(naked), None>>),
     PyList(<<PyStr(cruiser), PyStr(standard), PyStr(sportbike), PyStr(naked),
              PyStr(adventure), PyStr(touring)>>),
     PyList(<<PyList(<<>>)>>)}

\* a call of a normalizer on a request mapping
InitProfile ==
    /\ pc = "normalize"
    /\ profile \in {Profile(e, h, b, bt, k) :
                      e \in ExperiencePool, h \in HeightPool, b \in BudgetPool,
                      bt \in BikeTypesPool, k \in KPool}
    /\ bikes = <<>>
    /\ pin_ids = <<>>
    /\ external_items = <<>>
    /\ picked = <<>>
    /\ Idle
    /\ NoRequest

\* recommend_rules.validate_profile(profile)
ValidateProfile ==
    /\ pc = "normalize"
    /\ LET r == validate_profile(profile)
       IN  /\ raised' = r.raised
           /\ prof' = IF r.raised = "none" THEN r.v ELSE prof
    /\ pc' = "validated"
    /\ UNCHANGED <<bikes, profile, pin_ids, external_items, picked, seen, out, items,
                   filtered, ranked, shortlist>>
    /\ UNCHANGED apiVars

\* app._clean_profile(profile)
CleanProfile ==
    /\ pc = "normalize"
    /\ LET r == _clean_profile(profile)
       IN  /\ raised' = r.raised
           /\ prof' = IF r.raised = "none" THEN r.v ELSE prof
    /\ pc' = "cleaned"
    /\ UNCHANGED <<bikes, profile, pin_ids, external_items, picked, seen, out, items,
                   filtered, ranked, shortlist>>
    /\ UNCHANGED apiVars

NextProfile == ValidateProfile \/ CleanProfile

SpecProfile == InitProfile /\ [][NextProfile]_vars

\* height_cm, budget_usd and k integers within bounds, experience one of the
\* two values, at most five bike_types, each of the enum
WithinBounds(p) ==
    /\ p.height_cm.t = "int" /\ 140 <= p.height_cm.n /\ p.height_cm.n <= 210
    /\ p.budget_usd.t = "int" /\ 1000 <= p.budget_usd.n /\ p.budget_usd.n <= 20000
    /\ p.k.t = "int" /\ 1 <= p.k.n /\ p.k.n <= 6
    /\ p.experience.t = "str" /\ p.experience.s \in EXPERIENCES
    /\ p.bike_types.t = "list" /\ Len(p.bike_types.l) <= 5
    /\ \A i \in DOMAIN p.bike_types.l :
          p.bike_types.l[i].t = "str" /\ p.bike_types.l[i].s \in ALLOWED_TYPES

\* C5: the profile that validate_profile or _clean_profile returns is within
\* the bounds: 140 <= height_cm <= 210, 1000 <= budget_usd <= 20000,
\* 1 <= k <= 6, all three integers, experience one of the two values, at most
\* 5 bike_types, each of the seven-tag enum.
C5_NormalizationBounds ==
    (pc \in {"validated", "cleaned"} /\ raised = "none") => WithinBounds(prof)

\* C6: the normalizers never raise, whatever the mapping holds.
C6_NeverRaises ==
    pc \in {"validated", "cleaned"} => raised = "none"

-----------------------------------------------------------------------------
(* The scoring helpers and recommend.  A seat-height fit is an integer over
   FitDen, a score an integer over ScoreDen, a dampener an integer over
   DampDen: the exact values of the float expressions
   (0.6 fit/FitDen + (2100 - 10 w)/FitDen + 0.05) damp/DampDen. *)

FitDen == 2400
DampDen == 100
ScoreDen == 1200000

Abs(n) == IF n < 0 THEN -n ELSE n

\* a Python number as tenths
Tenths(v) == IF v.t = "float" THEN v.n ELSE 10 * v.n

\* recommend_rules._height_match_score: max(0, 1 - |seat - 4.5 h| / 120)
_height_match_score(seat_height_mm, rider_height_cm) ==
    IF seat_height_mm.t = "none" THEN 0
    ELSE Max(0, FitDen - Abs(2 * Tenths(seat_height_mm) - 90 * rider_height_cm))

\* recommend_rules._beginner_power_guard
_beginner_power_guard(exp, max_speed_mph, zero_to_sixty_s) ==
    IF exp # PyStr(no_experience) THEN DampDen
    ELSE (IF max_speed_mph.t # "none" /\ Tenths(max_speed_mph) >= 1150 THEN 9 ELSE 10)
         * (IF zero_to_sixty_s.t # "none" /\ Tenths(zero_to_sixty_s) <= 50 THEN 9 ELSE 10)

\* the reason list with the seat-height reason given whenever a seat height is known
_base_reason_list_any_seat(bike, p) ==
    (IF Get(bike.abs) = PyTrue THEN <<PyStr(Has_ABS)>> ELSE <<>>)
    \o (IF Get(bike.wet_weight_kg).t # "none" /\ Tenths(bike.wet_weight_kg) <= 1720
        THEN <<PyStr(Lightweight)>> ELSE <<>>)
    \o (IF Get(bike.seat_height_mm).t # "none" THEN <<PyStr(Seat_height)>> ELSE <<>>)

\* recommend_rules._base_reason_list (hm >= 0.7 is 10 hm >= 7 FitDen)
_base_reason_list(bike, p) ==
    FirstFive(
        (IF Get(bike.abs) = PyTrue THEN <<PyStr(Has_ABS)>> ELSE <<>>)
        \o (IF Get(bike.wet_weight_kg).t # "none" /\ Tenths(bike.wet_weight_kg) <= 1720
            THEN <<PyStr(Lightweight)>> ELSE <<>>)
        \o (IF /\ Get(bike.seat_height_mm).t # "none"
               /\ 10 * _height_match_score(bike.seat_height_mm, p.height_cm.n) >= 7 * FitDen
            THEN <<PyStr(Seat_height)>> ELSE <<>>))

\* the filter without its `bt_set and` test: an empty bike_types keeps nothing
TypeFilter_empty_excludes(bs, p) ==
    LET bt_set == {p.bike_types.l[i] : i \in DOMAIN p.bike_types.l}
        Keep(b) == PyStr(Lower(Or(Get(b.category), PyStr(<<>>)).s)) \in bt_set
    IN  SelectSeq(bs, Keep)

\* recommend 72-76: the records of the profile's bike_types, all when it is empty
TypeFilter(bs, p) ==
    LET bt_set == {p.bike_types.l[i] : i \in DOMAIN p.bike_types.l}
        Keep(b) == bt_set = {} \/ PyStr(Lower(Or(Get(b.category), PyStr(<<>>)).s)) \in bt_set
    IN  SelectSeq(bs, Keep)

\* recommend 81-93: the score of one record, over ScoreDen
Score(b, p) ==
    LET w == Get(b.wet_weight_kg)
        fit == 3 * _height_match_score(Get(b.seat_height_mm), p.height_cm.n)
        weight == IF w.t \in {"int", "float", "bool"} THEN 5 * Max(0, 2100 - Tenths(w)) ELSE 0
        bonus == IF Get(b.abs) = PyTrue THEN 600 ELSE 0
    IN  (fit + weight + bonus)
        * _beginner_power_guard(p.experience, Get(b.max_speed_mph), Get(b.zero_to_sixty_s))

\* recommend 79-95
ScoreAll(bs, p) == [i \in DOMAIN bs |-> [score |-> Score(bs[i], p), b |-> bs[i]]]

\* a descending sort that puts a record ahead of the earlier records of its score
RECURSIVE SortDesc_ties_reversed(_)
SortDesc_ties_reversed(r) ==
    IF r = <<>> THEN <<>>
    ELSE LET rest == SortDesc_ties_reversed(SubSeq(r, 1, Len(r) - 1))
             x == r[Len(r)]
             n == Cardinality({i \in DOMAIN rest : rest[i].score > x.score})
         IN  SubSeq(rest, 1, n) \o <<x>> \o SubSeq(rest, n + 1, Len(rest))

\* recommend 97: list.sort(key=score, reverse=True), which is stable: a record
\* goes behind the earlier records whose score is not lower
RECURSIVE SortDesc(_)
SortDesc(r) ==
    IF r = <<>> THEN <<>>
    ELSE LET rest == SortDesc(SubSeq(r, 1, Len(r) - 1))
             x == r[Len(r)]
             n == Cardinality({i \in DOMAIN rest : rest[i].score >= x.score})
         IN  SubSeq(rest, 1, n) \o <<x>> \o SubSeq(rest, n + 1, Len(rest))

\* recommend 101-120: b["id"], b["name"], b["manufacturer"] and b["category"]
\* need their keys
HasRequiredKeys(b) ==
    /\ b.id.t # "absent"
    /\ b.name.t # "absent"
    /\ b.manufacturer.t # "absent"
    /\ b.category.t # "absent"

\* recommend 101-120: the item of one record
Item(b, p) ==
    Dict(b.id, b.name, b.manufacturer, b.category, Get(b.engine_cc),
         Get(b.seat_height_mm), Get(b.wet_weight_kg), Get(b.abs),
         Get(b.max_speed_mph), Get(b.zero_to_sixty_s), Absent,
         PyList(_base_reason_list(b, p)))

\* recommend 98-123: ranked[:k*3], the items, out[:max(k, 1)]
Emit(r, p) ==
    LET k == p.k.n
        top == SubSeq(r, 1, Min(3 * k, Len(r)))
        its == [i \in DOMAIN top |-> Item(top[i].b, p)]
    IN  IF \E i \in DOMAIN top : ~HasRequiredKeys(top[i].b)
        THEN Raise("KeyError", <<>>)
        ELSE Ok(SubSeq(its, 1, Min(Max(k, 1), Len(its))))

-----------------------------------------------------------------------------
(* The inputs of recommend *)

s300 == <<"s","3","0","0">>
s300se == <<"s","3","0","0","s","e">>
s1000 == <<"s","1","0","0","0">>
s1000i == <<"s","1","0","0","0","i">>
c900 == <<"c","9","0","0">>
bare == <<"b","a","r","e">>
anon == <<"a","n","o","n">>
Sport_300 == <<"S","p","o","r","t"," ","3","0","0">>
Sport_300_SE == <<"S","p","o","r","t"," ","3","0","0"," ","S","E">>
Sport_1000 == <<"S","p","o","r","t"," ","1","0","0","0">>
Sport_1000_R == <<"S","p","o","r","t"," ","1","0","0","0"," ","R">>
Cruiser_900 == <<"C","r","u","i","s","e","r"," ","9","0","0">>
Bare == <<"B","a","r","e">>

\* the most records a catalog of a recommend run holds
MaxCatalog == 3

\* a 300cc sportbike with ABS, seat 780 mm, 165 kg
Bike300 == Bike(PyStr(s300), PyStr(Sport_300), PyStr(Yamaha), PyStr(sportbike),
                PyInt(300), PyInt(780), PyInt(165), PyTrue, PyInt(112), PyFloat(52))
\* a second 300cc sportbike of the same specs, its category written Sportbike
Twin300 == Bike(PyStr(s300se), PyStr(Sport_300_SE), PyStr(Yamaha), PyStr(Sportbike),
                PyInt(300), PyInt(780), PyInt(165), PyTrue, PyInt(112), PyFloat(52))
\* a 1000cc sportbike without ABS: tall, heavy and fast
Bike1000 == Bike(PyStr(s1000), PyStr(Sport_1000), PyStr(Honda), PyStr(sportbike),
                 PyInt(1000), PyInt(830), PyInt(201), PyFalse, PyInt(186), PyFloat(30))
\* a 1000cc sportbike without ABS whose seat and weight suit the rider and
\* whose speed figures are not recorded
Bike1000Ideal == Bike(PyStr(s1000i), PyStr(Sport_1000_R), PyStr(Kawasaki), PyStr(sportbike),
                      PyInt(1000), PyInt(765), PyInt(150), PyFalse, None, Absent)
\* a low and heavy cruiser without ABS
Cruiser900 == Bike(PyStr(c900), PyStr(Cruiser_900), PyStr(Honda), PyStr(cruiser),
                   PyInt(900), PyInt(640), PyInt(250), PyFalse, PyInt(110), PyFloat(55))
\* a record with no specs
BareBike == Bike(PyStr(bare), PyStr(Bare), PyStr(Honda), PyStr(standard),
                 Absent, None, Absent, None, Absent, Absent)
\* a record with no name key
NamelessBike == Bike(PyStr(anon), Absent, PyStr(Honda), PyStr(cruiser),
                     PyInt(500), PyInt(700), PyInt(190), PyTrue, PyInt(100), PyFloat(60))

BikePool == {Bike300, Twin300, Bike1000, Bike1000Ideal, Cruiser900, BareBike, NamelessBike}

\* the catalogs: up to MaxCatalog records of the pool, no record twice
Catalogs == {c \in SeqsUpTo(BikePool, MaxCatalog) : \A i, j \in DOMAIN c : i # j => c[i] # c[j]}

RankProfiles ==
    {Profile(PyStr(e), PyInt(h), Absent, PyList(bt), PyInt(k)) :
        e \in EXPERIENCES, h \in {170, 150},
        bt \in {<<>>, <<PyStr(sportbike)>>, <<PyStr(cruiser)>>}, k \in {1, 2}}

\* a call recommend(bikes, profile)
InitRank ==
    /\ pc = "recommend"
    /\ bikes \in Catalogs
    /\ profile \in RankProfiles
    /\ pin_ids = <<>>
    /\ external_items = <<>>
    /\ picked = <<>>
    /\ Idle
    /\ NoRequest

\* recommend 67-76
Filter ==
    /\ pc = "recommend"
    /\ LET v == validate_profile(profile)
       IN  IF v.raised # "none"
           THEN /\ raised' = v.raised
                /\ pc' = "raised"
                /\ UNCHANGED <<prof, filtered>>
           ELSE /\ prof' = v.v
                /\ filtered' = TypeFilter(bikes, v.v)
                /\ pc' = "score"
                /\ UNCHANGED raised
    /\ UNCHANGED <<bikes, profile, pin_ids, external_items, picked, seen, out, items,
                   ranked, shortlist>>
    /\ UNCHANGED apiVars

\* recommend 78-95
ScoreStep ==
    /\ pc = "score"
    /\ ranked' = ScoreAll(filtered, prof)
    /\ pc' = "sort"
    /\ UNCHANGED <<bikes, profile, prof, pin_ids, external_items, picked, seen, out,
                   items, filtered, shortlist, raised>>
    /\ UNCHANGED apiVars

\* recommend 97
Sort ==
    /\ pc = "sort"
    /\ ranked' = SortDesc(ranked)
    /\ pc' = "emit"
    /\ UNCHANGED <<bikes, profile, prof, pin_ids, external_items, picked, seen, out,
                   items, filtered, shortlist, raised>>
    /\ UNCHANGED apiVars

\* recommend 98-123
EmitStep ==
    /\ pc = "emit"
    /\ LET r == Emit(ranked, prof)
       IN  /\ raised' = r.raised
           /\ shortlist' = r.v
           /\ pc' = IF r.raised = "none" THEN "ranked" ELSE "raised"
    /\ UNCHANGED <<bikes, profile, prof, pin_ids, external_items, picked, seen, out,
                   items, filtered, ranked>>
    /\ UNCHANGED apiVars

NextRank == Filter \/ ScoreStep \/ Sort \/ EmitStep

SpecRank == InitRank /\ [][NextRank]_vars

-----------------------------------------------------------------------------
(* What recommend is to return *)

\* record i of l goes ahead of record j: a higher score, or the same score
\* and an earlier place in the catalog
Ahead(l, p, i, j) ==
    \/ Score(l[i], p) > Score(l[j], p)
    \/ Score(l[i], p) = Score(l[j], p) /\ i < j

\* the place of record i of l in the ranking
Place(l, p, i) == Cardinality({j \in DOMAIN l : Ahead(l, p, j, i)}) + 1

\* C7: recommend returns the first min(k, number of filtered records) records
\* of the filtered catalog in descending score order, records of one score in
\* catalog order.
C7_TopKStable ==
    pc = "ranked" =>
        /\ Len(shortlist) = Min(prof.k.n, Len(filtered))
        /\ \A n \in DOMAIN shortlist :
              \E i \in DOMAIN filtered :
                  /\ Place(filtered, prof, i) = n
                  /\ shortlist[n].id = filtered[i].id

\* a return that reordered the catalog, cut it to k and kept two records of
\* one score in catalog order
C7_Witness ==
    /\ pc = "ranked"
    /\ Len(filtered) > prof.k.n
    /\ Len(shortlist) = 2
    /\ shortlist[1].id # filtered[1].id
    /\ \E i, j \in DOMAIN filtered :
          /\ i < j
          /\ Score(filtered[i], prof) = Score(filtered[j], prof)
          /\ shortlist[1].id = filtered[i].id
          /\ shortlist[2].id = filtered[j].id

\* the place of a reason in the fixed order ABS, weight, seat height
ReasonOrder(r) ==
    CASE r = PyStr(Has_ABS) -> 1
      [] r = PyStr(Lightweight) -> 2
      [] r = PyStr(Seat_height) -> 3
      [] OTHER -> 0

\* the condition a reason stands for, on the returned item and the profile
ReasonHolds(r, it, p) ==
    CASE r = PyStr(Has_ABS) -> it.abs = PyTrue
      [] r = PyStr(Lightweight) ->
            it.wet_weight_kg.t \in {"int", "float"} /\ Tenths(it.wet_weight_kg) <= 1720
      [] r = PyStr(Seat_height) ->
            /\ it.seat_height_mm.t \in {"int", "float"}
            /\ Abs(2 * Tenths(it.seat_height_mm) - 90 * p.height_cm.n) <= 720
      [] OTHER -> FALSE

\* C8: every reason of a returned item stands for a condition that holds for
\* the item and the profile (ABS: abs is true; lightweight: wet weight <= 172
\* kg; seat height: fit >= 0.7, that is |seat - 4.5 height| <= 36 mm); the
\* reasons come in the order ABS, weight, seat height, none twice, at most 5.
C8_ReasonsValid ==
    pc = "ranked" =>
        \A n \in DOMAIN shortlist :
            LET rs == shortlist[n].reasons.l IN
            /\ Len(rs) <= 5
            /\ \A i \in DOMAIN rs : ReasonOrder(rs[i]) > 0 /\ ReasonHolds(rs[i], shortlist[n], prof)
            /\ \A i, j \in DOMAIN rs : i < j => ReasonOrder(rs[i]) < ReasonOrder(rs[j])

\* a return with an item of all three reasons and an item whose known seat
\* height does not fit and earns no seat-height reason
C8_Witness ==
    /\ pc = "ranked"
    /\ \E n \in DOMAIN shortlist :
          shortlist[n].reasons.l = <<PyStr(Has_ABS), PyStr(Lightweight), PyStr(Seat_height)>>
    /\ \E n \in DOMAIN shortlist :
          /\ shortlist[n].seat_height_mm.t = "int"
          /\ \A i \in DOMAIN shortlist[n].reasons.l :
                shortlist[n].reasons.l[i] # PyStr(Seat_height)

Generic_reason == <<"g","o","o","d"," ","o","v","e","r","a","l","l"," ","f","i","t"," ","f","o","r"," ","b","e","g","i","n","n","e","r","s">>

\* C9: the reason list of every returned item is non-empty; an item for which
\* no condition holds carries the one generic reason.
C9_ReasonsNeverEmpty ==
    pc = "ranked" =>
        \A n \in DOMAIN shortlist :
            /\ shortlist[n].reasons.l # <<>>
            /\ (\A r \in {PyStr(Has_ABS), PyStr(Lightweight), PyStr(Seat_height)} :
                    ~ReasonHolds(r, shortlist[n], prof))
               => shortlist[n].reasons.l = <<PyStr(Generic_reason)>>

\* the profile of scenario 1
Scenario1Profile ==
    /\ profile.experience = PyStr(no_experience)
    /\ profile.height_cm = PyInt(170)
    /\ profile.bike_types = PyList(<<PyStr(sportbike)>>)
    /\ profile.k = PyInt(2)

\* the 300cc sportbike of scenario 1
Is300(b) ==
    /\ b.category = PyStr(sportbike)
    /\ b.engine_cc = PyInt(300)
    /\ b.abs = PyTrue
    /\ b.seat_height_mm = PyInt(780)
    /\ b.wet_weight_kg = PyInt(165)

\* a 1000cc sportbike without ABS
Is1000NoABS(b) ==
    /\ b.category = PyStr(sportbike)
    /\ b.engine_cc = PyInt(1000)
    /\ b.abs # PyTrue

\* C10: in scenario 1, on a catalog of the 300cc sportbike and a 1000cc
\* sportbike without ABS, the 300cc bike has the strictly higher score and is
\* returned first, whatever the other specs of the 1000cc bike are.
C10_Scenario1 ==
    (pc = "ranked" /\ Scenario1Profile /\ Len(bikes) = 2) =>
        \A i, j \in DOMAIN bikes :
            (Is300(bikes[i]) /\ Is1000NoABS(bikes[j])) =>
                /\ Score(bikes[i], prof) > Score(bikes[j], prof)
                /\ shortlist[1].id = bikes[i].id

-----------------------------------------------------------------------------
(* _run_recommend on one external item: the call of step 5 on every shape of
   item, with no pin and no rule pick beside it *)

BMW_G_310_R == <<"B","M","W"," ","G"," ","3","1","0"," ","R">>

\* the "label" of the item: missing, null, a model, blanks only, empty, a number
ExtLabelPool == {Absent, None, PyStr(BMW_G_310_R), PyStr(Blank), PyStr(<<>>), PyInt(310)}

\* its "name"
ExtNamePool == {Absent, PyStr(Z400), PyStr(bmw_g)}

\* its "manufacturer": missing, null, empty, or given
ExtManufacturerPool == {Absent, None, PyStr(<<>>), PyStr(KAWASAKI), PyStr(bmw)}

\* its "specs": missing, or a dict
ExtSpecsPool ==
    {NoSpecs,
     Specs("dict", PyStr(naked), PyInt(313), PyInt(785), PyInt(164), PyTrue, PyInt(88), Absent)}

RichExternalPool ==
    {External(l, n, m, Absent, sp, Absent, Absent) :
        l \in ExtLabelPool, n \in ExtNamePool, m \in ExtManufacturerPool, sp \in ExtSpecsPool}

\* a call _run_recommend({}, external_items=[ext]) on a catalog whose rules
\* pick nothing
InitExternal ==
    /\ pc = "run_recommend"
    /\ bikes = Catalog
    /\ profile = NoProfile
    /\ pin_ids = <<>>
    /\ external_items \in {<<e>> : e \in RichExternalPool}
    /\ picked = <<>>
    /\ Idle
    /\ NoRequest

SpecExternal == InitExternal /\ [][Next]_vars

\* the name the normalised item is to carry: label, else name, else "Motorcycle"
LabelOf(e) ==
    IF Truthy(Get(e.label)) THEN e.label
    ELSE IF Truthy(Get(e.name)) THEN e.name
    ELSE PyStr(Motorcycle)

GivesManufacturer(e) == Truthy(Get(e.manufacturer))

\* the first whitespace-delimited token of a string, <<>> when it has none
RECURSIVE FirstToken(_)
FirstToken(s) ==
    IF s = <<>> THEN <<>>
    ELSE IF Head(s) = " " THEN FirstToken(Tail(s))
    ELSE LET n == CHOOSE n \in 1..Len(s) :
                      /\ \A i \in 1..n : s[i] # " "
                      /\ (n = Len(s) \/ s[n + 1] = " ")
         IN  SubSeq(s, 1, n)

HasToken(v) == v.t = "str" /\ FirstToken(v.s) # <<>>

\* the item of the one-external call has been through step 5
Normalised == pc \in {"picked", "enforce_k", "returned"}

\* the normalised item is the one item merged: catalog shape, id null, the
\* manufacturer kept when given and else the first token of the label
IsNormalOf(it, e) ==
    /\ it.id = None
    /\ it.name = LabelOf(e)
    /\ it.manufacturer = IF GivesManufacturer(e) THEN e.manufacturer
                         ELSE PyStr(FirstToken(LabelOf(e).s))
    /\ it.reasons = Absent

-----------------------------------------------------------------------------
(* POST /api/recommend: app.api_recommend around _run_recommend *)

\* the profile keys of the request body
ApiProfilePool ==
    {Profile(Absent, Absent, Absent, bt, k) :
        bt \in {Absent, PyList(<<PyStr(cruiser)>>)},
        k \in {Absent, PyInt(1), PyInt(3)}}

\* the pin_ids, the external_items and the rule picks of one request, each
MaxApiInputs == 1

InitApi ==
    /\ pc = "api_recommend"
    /\ bikes = Catalog
    /\ profile \in ApiProfilePool
    /\ pin_ids \in SeqsUpTo(PinPool, MaxApiInputs)
    /\ external_items \in SeqsUpTo(ExternalPool, MaxApiInputs)
    /\ picked \in SeqsUpTo(PickedPool, MaxApiInputs)
    /\ Idle
    /\ NoRequest

\* app.py 206-210: sanitize the body, take its pins and externals, call
\* _run_recommend
ApiRecommend ==
    /\ pc = "api_recommend"
    /\ LET c == _clean_profile(profile)
       IN  IF c.raised # "none"
           THEN /\ raised' = c.raised
                /\ pc' = "raised"
                /\ UNCHANGED profile
           ELSE /\ profile' = c.v
                /\ pc' = "run_recommend"
                /\ UNCHANGED raised
    /\ UNCHANGED <<bikes, prof, pin_ids, external_items, picked, seen, out, items,
                   filtered, ranked, shortlist>>
    /\ UNCHANGED apiVars

\* app.py 211: jsonify({"items": items})
ApiRespond ==
    /\ pc = "returned"
    /\ response' = Response("recommend", Absent, <<>>, items, Absent)
    /\ pc' = "responded"
    /\ UNCHANGED <<bikes, profile, prof, pin_ids, external_items, picked, seen, out,
                   items, filtered, ranked, shortlist, raised, message, llm, plan>>

NextApi == ApiRecommend \/ Pins \/ Externals \/ Picked \/ EnforceK \/ ApiRespond

SpecApi == InitApi /\ [][NextApi]_vars

\* the request brings no pin and no external item, and the rule-ranked
\* source contributes no item
NoCandidate == pin_ids = <<>> /\ external_items = <<>> /\ picked = <<>>

\* C12: an empty candidate set is a result, not an error: with no pin, no
\* external item and no rule pick the call raises nothing and the response
\* body holds an empty items list and count == 0.
C12_EmptyIsAResult ==
    NoCandidate
        => /\ raised = "none"
           /\ pc = "responded"
                => /\ response.items = <<>>
                   /\ response.count = PyInt(0)

-----------------------------------------------------------------------------
(* services/nlu.py: the planner app.py imports *)

UPDATE_PROFILE == <<"U","P","D","A","T","E","_","P","R","O","F","I","L","E">>
RECOMMEND == <<"R","E","C","O","M","M","E","N","D">>
MOTO_DOMAIN == <<"M","O","T","O","_","D","O","M","A","I","N">>
AMBIGUOUS == <<"A","M","B","I","G","U","O","U","S">>
EMPTY == <<"E","M","P","T","Y">>
OFFTOPIC == <<"O","F","F","T","O","P","I","C">>
kw_sport == <<"s","p","o","r","t">>
kw_adv == <<"a","d","v">>
kw_dual == <<"d","u","a","l">>
kw_dual_sport == <<"d","u","a","l","-","s","p","o","r","t">>
kw_cheap == <<"c","h","e","a","p">>
kw_budget == <<"b","u","d","g","e","t">>
kw_under == <<"u","n","d","e","r">>
kw_fast == <<"f","a","s","t">>
kw_speed == <<"s","p","e","e","d">>
kw_power == <<"p","o","w","e","r">>
kw_tall == <<"t","a","l","l">>
kw_height == <<"h","e","i","g","h","t">>
kw_short == <<"s","h","o","r","t">>
kw_low == <<"l","o","w">>

\* sub in s
Contains(s, sub) ==
    \E i \in 1..(Len(s) - Len(sub) + 1) : SubSeq(s, i, i + Len(sub) - 1) = sub

\* {"type": "UPDATE_PROFILE", "patch": patch}
UpdateProfile(patch) ==
    Action(PyStr(UPDATE_PROFILE), patch, Absent, Absent, Absent, Absent, Absent)

\* {"type": "RECOMMEND"}
Recommend == Action(PyStr(RECOMMEND), NoPatch, Absent, Absent, Absent, Absent, Absent)

BikeTypesPatch(l) == [NoPatch EXCEPT !.bike_types = PyList(l)]

\* nlu._fallback_rules
_fallback_rules(msg_in) ==
    LET msg == Lower(msg_in)
        If(c, a) == IF c THEN <<UpdateProfile(a)>> ELSE <<>>
        actions ==
            If(Contains(msg, cruiser), BikeTypesPatch(<<PyStr(cruiser)>>))
            \o If(Contains(msg, kw_sport), BikeTypesPatch(<<PyStr(sportbike)>>))
            \o If(Contains(msg, kw_adv) \/ Contains(msg, kw_dual),
                  BikeTypesPatch(<<PyStr(kw_adv), PyStr(kw_dual_sport)>>))
            \o If(Contains(msg, kw_cheap) \/ Contains(msg, kw_budget) \/ Contains(msg, kw_under),
                  [NoPatch EXCEPT !.budget_usd = PyInt(6000)])
            \o If(Contains(msg, kw_fast) \/ Contains(msg, kw_speed) \/ Contains(msg, kw_power),
                  [NoPatch EXCEPT !.engine_cc_min = PyInt(400)])
            \o If(Contains(msg, kw_tall) \/ Contains(msg, kw_height),
                  [NoPatch EXCEPT !.height_cm = PyInt(180)])
            \o If(Contains(msg, kw_short) \/ Contains(msg, kw_low),
                  [NoPatch EXCEPT !.height_cm = PyInt(165)])
    IN  IF actions # <<>>
        THEN Plan(PyStr(MOTO_DOMAIN), Append(actions, Recommend))
        ELSE Plan(PyStr(AMBIGUOUS), <<>>)

\* nlu.make_plan
make_plan(msg, l) ==
    IF Strip(msg) = <<>> THEN Plan(PyStr(EMPTY), <<>>)
    ELSE CASE l.t = "off" -> _fallback_rules(msg)
           [] l.t = "plan" -> l.plan
           [] l.t = "unparsable" -> _fallback_rules(msg)
           [] l.t = "quota" -> Plan(PyStr(MOTO_DOMAIN), <<>>)
           [] l.t = "auth" -> Plan(PyStr(AMBIGUOUS), <<>>)
           [] l.t = "error" -> _fallback_rules(msg)

-----------------------------------------------------------------------------
(* POST /api/chat: app.api_chat around make_plan and _run_recommend *)

msg_script == <<"w","r","i","t","e"," ","a"," ","p","y","t","h","o","n"," ","s","c","r","i","p","t">>
msg_power == <<"w","r","i","t","e"," ","a"," ","p","o","w","e","r","f","u","l"," ","p","y","t","h","o","n"," ","s","c","r","i","p","t">>
msg_full == <<"I","'","m"," ","1","7","5"," ","c","m",","," ","b","u","d","g","e","t"," ","7","0","0","0",","," ","p","r","e","f","e","r"," ","n","a","k","e","d","."," ","P","l","e","a","s","e"," ","r","e","c","o","m","m","e","n","d",".">>
msg_naked == <<"I","'","m"," ","1","7","5"," ","c","m",","," ","p","r","e","f","e","r"," ","n","a","k","e","d","."," ","P","l","e","a","s","e"," ","r","e","c","o","m","m","e","n","d",".">>
msg_cruiser == <<"r","e","c","o","m","m","e","n","d"," ","a"," ","c","r","u","i","s","e","r"," ","b","i","k","e">>
msg_bike == <<"w","h","a","t"," ","b","i","k","e"," ","f","o","r"," ","a"," ","b","e","g","i","n","n","e","r">>
Great_starter == <<"G","r","e","a","t"," ","s","t","a","r","t","e","r">>

\* chat messages: the two of tests/test_chat_nlu.py, variants of them, a plain
\* request, the empty and the blank message
MessagePool == {msg_script, msg_power, msg_full, msg_naked, msg_cruiser, msg_bike, <<>>, Blank}

\* {"type": "RECOMMEND", "pin_ids": pins, "items": its}
RecommendWith(pins, its) ==
    Action(PyStr(RECOMMEND), NoPatch, pins, its, Absent, Absent, Absent)

BMWItem == External(PyStr(BMW_G_310_R), Absent, Absent, Absent, NoSpecs, Absent, Absent)

\* plans the model may reply with, of the shape the plan contract names: a
\* patch then a recommend with pins and items, a patch then a bare recommend,
\* a recommend with a pin only, no action, a recommend described in prose,
\* and a patch alone
PlanPool ==
    {Plan(PyStr(MOTO_DOMAIN),
          <<UpdateProfile([NoPatch EXCEPT !.k = PyInt(1)]),
            RecommendWith(PyList(<<PyStr(honda_rebel300)>>), PyList(<<BMWItem>>))>>),
     Plan(PyStr(MOTO_DOMAIN),
          <<UpdateProfile([NoPatch EXCEPT !.k = PyInt(1)]), Recommend>>),
     Plan(PyStr(MOTO_DOMAIN), <<RecommendWith(PyList(<<PyStr(yamaha_r3)>>), Absent)>>),
     Plan(PyStr(MOTO_DOMAIN), <<>>),
     Plan(Absent,
          <<Action(PyStr(RECOMMEND), NoPatch, Absent, Absent, PyStr(Great_starter),
                   Absent, PyStr(Z400))>>),
     Plan(PyStr(MOTO_DOMAIN),
          <<UpdateProfile(BikeTypesPatch(<<PyStr(cruiser)>>))>>)}

LlmPool ==
    {Llm(t, NoPlan) : t \in {"off", "unparsable", "quota", "auth", "error"}}
    \cup {Llm("plan", p) : p \in PlanPool}

\* the "profile" of the chat request body
ChatProfilePool ==
    {Profile(Absent, Absent, Absent, Absent, k) : k \in {Absent, PyInt(3)}}

\* what the rule picks of one chat request may hold
MaxChatPicks == 2

InitChat ==
    /\ pc = "api_chat"
    /\ bikes = Catalog
    /\ profile \in ChatProfilePool
    /\ message \in MessagePool
    /\ llm \in LlmPool
    /\ picked \in SeqsUpTo(PickedPool, MaxChatPicks)
    /\ pin_ids = <<>>
    /\ external_items = <<>>
    /\ plan = NoPlan
    /\ response = NoResponse
    /\ Idle

IsRecommend(act) == Get(act.type) = PyStr(RECOMMEND)

\* app.py 235-239: one external item per RECOMMEND action that has a
\* description or notes
RECURSIVE DescribedItems(_)
DescribedItems(acts) ==
    IF acts = <<>> THEN <<>>
    ELSE LET act == Head(acts)
             desc == Or(Get(act.description), Get(act.notes))
         IN  (IF IsRecommend(act) /\ Truthy(desc)
              THEN <<External(Absent, Get(act.model), Absent, Absent, NoSpecs, Absent, Absent)>>
              ELSE <<>>) \o DescribedItems(Tail(acts))

\* app.py 222-244: make the plan, collect the externals, decide on the call of
\* _run_recommend
ApiChat ==
    /\ pc = "api_chat"
    /\ plan' = make_plan(message, llm)
    /\ pin_ids' = <<>>
    /\ external_items' = DescribedItems(plan'.actions)
    /\ pc' = IF external_items' # <<>> \/ \E i \in DOMAIN plan'.actions : IsRecommend(plan'.actions[i])
             THEN "run_recommend"
             ELSE "no_recommend"
    /\ UNCHANGED <<bikes, profile, prof, picked, seen, out, items, filtered, ranked,
                   shortlist, raised, message, llm, response>>

\* app.py 247-252
ChatRespond ==
    /\ pc \in {"returned", "no_recommend"}
    /\ response' = Response("chat", GetOr(plan.topic, PyStr(MOTO_DOMAIN)), plan.actions,
                            items, Absent)
    /\ pc' = "responded"
    /\ UNCHANGED <<bikes, profile, prof, pin_ids, external_items, picked, seen, out,
                   items, filtered, ranked, shortlist, raised, message, llm, plan>>

NextChat == ApiChat \/ Pins \/ Externals \/ Picked \/ EnforceK \/ ChatRespond

SpecChat == InitChat /\ [][NextChat]_vars

\* the plan holds a RECOMMEND action
HasRecommend == \E i \in DOMAIN plan.actions : IsRecommend(plan.actions[i])

\* its first RECOMMEND action
TheRecommend ==
    plan.actions[CHOOSE i \in DOMAIN plan.actions :
                    /\ IsRecommend(plan.actions[i])
                    /\ \A j \in 1..(i - 1) : ~IsRecommend(plan.actions[j])]

\* the elements of a list an action carries, none when it carries no list
Carried(v) == IF v.t = "list" THEN v.l ELSE <<>>

\* _run_recommend has not been called
NotRun == prof = NoProfile /\ out = <<>> /\ items = <<>>

\* C13: when the plan holds a RECOMMEND action, _run_recommend is called with
\* exactly the pin_ids and the items that action carries (none when it carries
\* none); when the plan holds no RECOMMEND action no recommendation is run and
\* no item is returned.
C13_RecommendCarriesPayload ==
    pc # "api_chat"
        => IF HasRecommend
           THEN /\ pc # "no_recommend"
                /\ pc = "run_recommend"
                     => /\ pin_ids = Carried(TheRecommend.pin_ids)
                        /\ external_items = Carried(TheRecommend.items)
           ELSE /\ pc \in {"no_recommend", "responded"}
                /\ NotRun
                /\ pc = "responded" => response.items = <<>>

IsUpdateProfile(act) == Get(act.type) = PyStr(UPDATE_PROFILE)

\* dict.update: the keys of the patch replace those of the profile
Update(p, patch) ==
    Profile(GetOr(patch.experience, p.experience), GetOr(patch.height_cm, p.height_cm),
            GetOr(patch.budget_usd, p.budget_usd), GetOr(patch.bike_types, p.bike_types),
            GetOr(patch.k, p.k))

\* the profile with the patch of every UPDATE_PROFILE action merged in, in order
RECURSIVE Patched(_, _)
Patched(p, acts) ==
    IF acts = <<>> THEN p
    ELSE Patched(IF IsUpdateProfile(Head(acts)) THEN Update(p, Head(acts).patch) ELSE p,
                 Tail(acts))

HasUpdateProfile == \E i \in DOMAIN plan.actions : IsUpdateProfile(plan.actions[i])

\* C14: the patch of every UPDATE_PROFILE action is merged into the profile
\* before the RECOMMEND action of the same plan is computed: _run_recommend
\* works on the patched profile and the items returned are those it gives for
\* that profile.
C14_PatchBeforeRecommend ==
    pc = "responded" /\ HasRecommend /\ HasUpdateProfile
        => LET c == _clean_profile(Patched(profile, plan.actions))
           IN  /\ prof = c.v
               /\ response.items = FirstK(out, c.v.k.n)

-----------------------------------------------------------------------------
(* recommend on records that lack a field *)

\* C15: no exception leaves the ranker for any catalog record: a record that
\* lacks a required field or a spec field, or holds null for it, is still
\* ranked (the missing term adding 0 to its score), so that the call returns
\* the first k of the records that pass the filter.
C15_NoExceptionEscapes ==
    /\ raised = "none"
    /\ pc # "raised"
    /\ pc = "ranked" => Len(shortlist) = Min(prof.k.n, Len(filtered))

-----------------------------------------------------------------------------
(* recommend on one record: the score over a grid of specs *)

grid == <<"g","r","i","d">>

\* one record per seat height, weight, ABS flag and speed figures: around the
\* inseam of the rider, around the two ends of the weight ramp and around the
\* two thresholds of the power guard, each also null
GridBikes ==
    {Bike(PyStr(grid), PyStr(grid), PyStr(Honda), PyStr(standard), PyInt(300),
          seat, w, a, speed, z60) :
        seat \in {None, PyInt(765), PyInt(780), PyInt(830), PyInt(900)},
        w \in {None, PyInt(120), PyInt(150), PyFloat(1655), PyInt(210), PyInt(250)},
        a \in {None, PyTrue, PyFalse},
        speed \in {None, PyInt(114), PyInt(115)},
        z60 \in {None, PyFloat(50), PyFloat(51)}}

GridProfiles ==
    {Profile(PyStr(e), PyInt(h), Absent, PyList(<<>>), PyInt(1)) :
        e \in EXPERIENCES, h \in {170, 150}}

\* a call recommend([bike], profile)
InitScore ==
    /\ pc = "recommend"
    /\ bikes \in {<<b>> : b \in GridBikes}
    /\ profile \in GridProfiles
    /\ pin_ids = <<>>
    /\ external_items = <<>>
    /\ picked = <<>>
    /\ Idle
    /\ NoRequest

SpecScore == InitScore /\ [][NextRank]_vars

IsNumber(v) == v.t \in {"int", "float"}

\* max(0, 1 - |seat_height_mm - 4.5 * height_cm| / 120), over FitDen
SeatFit(b, p) ==
    IF IsNumber(Get(b.seat_height_mm))
    THEN Max(0, FitDen - Abs(2 * Tenths(b.seat_height_mm) - 90 * p.height_cm.n))
    ELSE 0

\* 1 at 150 kg and below, 0 at 210 kg and above, linear in between, over 600
WeightRamp(b) ==
    IF IsNumber(Get(b.wet_weight_kg))
    THEN Min(600, Max(0, 2100 - Tenths(b.wet_weight_kg)))
    ELSE 0

\* 0.9 per threshold met for no_experience, 1 for little_experience, over DampDen
Dampener(b, p) ==
    IF p.experience # PyStr(no_experience) THEN DampDen
    ELSE (IF IsNumber(Get(b.max_speed_mph)) /\ Tenths(b.max_speed_mph) >= 1150 THEN 9 ELSE 10)
         * (IF IsNumber(Get(b.zero_to_sixty_s)) /\ Tenths(b.zero_to_sixty_s) <= 50 THEN 9 ELSE 10)

\* 0.6 * seat-fit + 0.25 * weight-ramp + 0.05 if abs, times the dampener,
\* over ScoreDen
FormulaScore(b, p) ==
    (3 * SeatFit(b, p) + 5 * WeightRamp(b) + (IF Get(b.abs) = PyTrue THEN 600 ELSE 0))
    * Dampener(b, p)

Scored == pc \in {"sort", "emit", "ranked"}

\* C18: the score of a (vehicle, profile) pair is 0.6 * seat-fit + 0.25 *
\* weight-ramp + 0.05 for ABS, the weight-ramp being 1 at 150 kg and below and
\* 0 at 210 kg and above, so that the undamped sum never exceeds 0.9; the sum
\* is multiplied by 0.9 per power threshold met for no_experience only.
C18_ScoreIsFormula ==
    Scored =>
        \A i \in DOMAIN ranked :
            /\ ranked[i].score = FormulaScore(ranked[i].b, prof)
            /\ ranked[i].score <= 9 * (ScoreDen \div 10)

-----------------------------------------------------------------------------
(* recommend: the category filter *)

\* the category tag of a record: its category in lower case, the empty tag
\* when the record has none (for a category of the enum, the category itself)
CategoryTag(b) == IF Truthy(Get(b.category)) THEN Lower(b.category.s) ELSE <<>>

\* the category of the record is one of the normalised bike_types
Listed(b) == \E i \in DOMAIN prof.bike_types.l : prof.bike_types.l[i] = PyStr(CategoryTag(b))

NoPreference == prof.bike_types.l = <<>>

Filtered == pc \in {"score", "sort", "emit", "ranked"}

Kept(b) == \E i \in DOMAIN filtered : filtered[i] = b

-----------------------------------------------------------------------------
(* The normalizers: the bike_types rule *)

\* the entries of a bike_types input: the string itself for a single string,
\* the elements for a list, none otherwise
EntriesOf(v) ==
    CASE v.t = "str" -> <<v>>
      [] v.t = "list" -> v.l
      [] OTHER -> <<>>

LowerEntry(t) == IF t.t = "str" THEN PyStr(Lower(t.s)) ELSE t

\* each entry lower-cased, the entries of the enum kept in order, at most five
NormalTypes(v) ==
    FirstFive(SelectSeq([i \in DOMAIN EntriesOf(v) |-> LowerEntry(EntriesOf(v)[i])], InAllowed))

\* C20: the normalised bike_types are the entries of the input (a single
\* string or a collection of strings), each lower-cased, those of the
\* seven-tag enum kept in first-seen order, truncated to 5.
C20_BikeTypesRule ==
    pc \in {"validated", "cleaned"} /\ raised = "none"
        => prof.bike_types = PyList(NormalTypes(profile.bike_types))

-----------------------------------------------------------------------------
(* services/chat_nlu.py: the planner of tests/test_chat_nlu.py.  Its regular
   expressions are matched on the lower-cased text, as re.I and t = text.lower()
   make them; the only whitespace of a message is the space. *)

WORD_CHARS == {LOWER[i] : i \in DOMAIN LOWER} \cup {DIGITS[i] : i \in DOMAIN DIGITS} \cup {"_"}

\* the character at i, a space beyond the ends
CharAt(s, i) == IF i \in DOMAIN s THEN s[i] ELSE " "

\* \b before the character at i
Boundary(s, i) == (CharAt(s, i - 1) \in WORD_CHARS) # (CharAt(s, i) \in WORD_CHARS)

\* the literal lit starts at i
LitAt(s, i, lit) == i >= 1 /\ i + Len(lit) - 1 <= Len(s) /\ SubSeq(s, i, i + Len(lit) - 1) = lit

\* the positions \s* may stop at when it starts at i
AfterSpaces(s, i) == {j \in i..(Len(s) + 1) : \A n \in i..(j - 1) : s[n] = " "}

\* n digits start at i
DigitsAt(s, i, n) == i >= 1 /\ i + n - 1 <= Len(s) /\ \A m \in i..(i + n - 1) : IsDigit(s[m])

\* the ends (one past the last character) of lit taken at i, of any of lits
EndsOfLit(s, i, lit) == IF LitAt(s, i, lit) THEN {i + Len(lit)} ELSE {}
EndsOfAny(s, i, lits) == UNION {EndsOfLit(s, i, lit) : lit \in lits}

\* \b(lit)\b somewhere in s
HasWord(s, lits) ==
    \E i \in DOMAIN s : Boundary(s, i) /\ \E e \in EndsOfAny(s, i, lits) : Boundary(s, e)

Least(S) == CHOOSE x \in S : \A y \in S : x <= y
Greatest(S) == CHOOSE x \in S : \A y \in S : y <= x

\* the alternatives of MOTO_TERMS that are plain words
MOTO_WORDS ==
    {<<"r","i","d","e">>, <<"r","i","d","i","n","g">>, <<"m","o","t","o","r","c","y","c","l","e">>, <<"b","i","k","e">>, <<"h","e","l","m","e","t">>, <<"c","c">>, <<"a","b","s">>, <<"y","a","m","a","h","a">>,
     <<"h","o","n","d","a">>, <<"k","a","w","a","s","a","k","i">>, <<"s","u","z","u","k","i">>, <<"k","t","m">>, <<"d","u","c","a","t","i">>, <<"r","3">>, <<"c","b","r">>, <<"n","i","n","j","a">>,
     <<"r","e","b","e","l">>, <<"z","4","0","0">>, <<"s","e","a","t">>, <<"i","n","s","e","a","m">>, <<"m","s","f">>, <<"g","e","a","r">>, <<"b","e","g","i","n","n","e","r">>}

\* the ends of mt[-\s]?0?3 taken at i
EndsOfMt03(s, i) ==
    UNION {UNION {EndsOfLit(s, z, <<"3">>) :
                    z \in {a} \cup EndsOfLit(s, a, <<"0">>)} :
             a \in UNION {{m} \cup EndsOfAny(s, m, {<<"-">>, <<" ">>}) : m \in EndsOfLit(s, i, <<"m","t">>)}}

\* the ends of 390\s*duke taken at i
EndsOf390Duke(s, i) ==
    UNION {UNION {EndsOfLit(s, j, <<"d","u","k","e">>) : j \in AfterSpaces(s, m)} :
             m \in EndsOfLit(s, i, <<"3","9","0">>)}

\* MOTO_TERMS.search(text)
MOTO_TERMS(text) ==
    LET t == Lower(text)
    IN  \E i \in DOMAIN t :
            /\ Boundary(t, i)
            /\ \E e \in EndsOfAny(t, i, MOTO_WORDS) \cup EndsOfMt03(t, i) \cup EndsOf390Duke(t, i) :
                   Boundary(t, e)

_clamp_int(v, lo, hi) == Max(lo, Min(hi, v))

\* chat_nlu._norm_types
_norm_types(text) ==
    LET t == Lower(text)
        If(c, x) == IF c THEN <<PyStr(x)>> ELSE <<>>
    IN  If(Contains(t, sportbike) \/ HasWord(t, {kw_sport}), sportbike)
        \o If(Contains(t, naked), naked)
        \o If(Contains(t, standard), standard)
        \o If(Contains(t, cruiser), cruiser)
        \o If(Contains(t, kw_adv) \/ Contains(t, adventure), adventure)
        \o If(Contains(t, kw_dual_sport) \/ Contains(t, <<"d","u","a","l"," ","s","p","o","r","t">>), dual_sport)
        \o If(Contains(t, touring) \/ Contains(t, <<"t","o","u","r">>), touring)

\* where \s*(usd|dollars?)?\b may end when it starts at q
BudgetTail(t, q) ==
    \E j \in AfterSpaces(t, q) :
        \E e \in {j} \cup EndsOfAny(t, j, {<<"u","s","d">>, <<"d","o","l","l","a","r">>, <<"d","o","l","l","a","r","s">>}) : Boundary(t, e)

\* the lengths ([1-2]?\d{3,5}) may take at p
BudgetLens(t, p) ==
    {n \in 3..6 : /\ DigitsAt(t, p, n)
                  /\ n = 6 => t[p] \in {"1", "2"}
                  /\ BudgetTail(t, p + n)}

\* the end of the digit run that starts at i (i itself when no digit is there)
DigitRunEnd(t, i) == Greatest({j \in i..(Len(t) + 1) : \A n \in i..(j - 1) : IsDigit(t[n])})

\* under\s+(\d+(?:\.\d+)?)[kK]\b at i: int(float(number) * 1000), {} when there
\* is no match
UnderK(t, i) ==
    UNION {LET a == Greatest(AfterSpaces(t, m))
               b == DigitRunEnd(t, a)
               c == IF LitAt(t, b, <<".">>) THEN DigitRunEnd(t, b + 1) ELSE b
               whole == DigitsVal(SubSeq(t, a, b - 1))
               frac == SubSeq(t, b + 1, c - 1)
               Pow10(n) == CASE n = 0 -> 1 [] n = 1 -> 10 [] n = 2 -> 100 [] OTHER -> 1000
           IN  IF a > m /\ b > a /\ (c = b \/ c > b + 1) /\ Len(frac) <= 3
                  /\ LitAt(t, c, <<"k">>) /\ Boundary(t, c + 1)
               THEN {whole * 1000 + (DigitsVal(frac) * 1000) \div Pow10(Len(frac))}
               ELSE {} :
             m \in EndsOfLit(t, i, <<"u","n","d","e","r">>)}

\* \b(\d{2,3})\s*cm\b at p: the lengths of the number
HeightCmLens(t, p) ==
    {n \in 2..3 : /\ Boundary(t, p)
                  /\ DigitsAt(t, p, n)
                  /\ \E j \in AfterSpaces(t, p + n) : LitAt(t, j, <<"c","m">>) /\ Boundary(t, j + 2)}

\* \bheight\s*(\d{2,3})\b at i: the (start, length) of the number
HeightWordNums(t, i) ==
    IF ~Boundary(t, i) THEN {}
    ELSE UNION {{<<j, n>> : n \in {n \in 2..3 : DigitsAt(t, j, n) /\ Boundary(t, j + n)}} :
                  j \in UNION {AfterSpaces(t, m) : m \in EndsOfLit(t, i, <<"h","e","i","g","h","t">>)}}

\* \b(first)\b.*\b(experience|ridden?)\b, first being words or word pairs
\* (a, \s*, b)
ExperienceLike(t, words, pairs) ==
    \E i \in DOMAIN t :
        /\ Boundary(t, i)
        /\ \E e \in EndsOfAny(t, i, words)
                    \cup UNION {UNION {UNION {EndsOfLit(t, j, pr[2]) : j \in AfterSpaces(t, m)} :
                                         m \in EndsOfLit(t, i, pr[1])} :
                                  pr \in pairs} :
               /\ Boundary(t, e)
               /\ \E j \in e..Len(t) :
                      /\ Boundary(t, j)
                      /\ \E f \in EndsOfAny(t, j, {<<"e","x","p","e","r","i","e","n","c","e">>, <<"r","i","d","d","e">>, <<"r","i","d","d","e","n">>}) :
                             Boundary(t, f)

\* \b(?:show|top|k\s*=?)(\s*=?\s*)(\d)\b at i: the positions of the digit
KDigits(t, i) ==
    IF ~Boundary(t, i) THEN {}
    ELSE LET Eq(S) == S \cup UNION {EndsOfLit(t, m, <<"=">>) : m \in S}
             Sp(S) == UNION {AfterSpaces(t, m) : m \in S}
             key == EndsOfAny(t, i, {<<"s","h","o","w">>, <<"t","o","p">>}) \cup Eq(Sp(EndsOfLit(t, i, <<"k">>)))
         IN  {d \in Sp(Eq(Sp(key))) : DigitsAt(t, d, 1) /\ Boundary(t, d + 1)}

\* profile.get("k") not in (1, 2, 3, 4, 5, 6)
NoValidK(p) == ~(Get(p.k).t \in {"int", "bool"} /\ Get(p.k).n \in 1..6)

\* chat_nlu._parse_patch_fallback
_parse_patch_fallback(text, p) ==
    LET t == Lower(text)
        bs == {i \in DOMAIN t : BudgetLens(t, i) # {}}
        us == {i \in DOMAIN t : UnderK(t, i) # {}}
        budget_usd ==
            IF bs # {}
            THEN LET i == Least(bs)
                 IN  PyInt(_clamp_int(DigitsVal(SubSeq(t, i, i + Greatest(BudgetLens(t, i)) - 1)),
                                      1000, 20000))
            ELSE IF us # {}
            THEN PyInt(_clamp_int(CHOOSE v \in UnderK(t, Least(us)) : TRUE, 1000, 20000))
            ELSE Absent
        hs == {i \in DOMAIN t : HeightCmLens(t, i) # {}}
        ws == {i \in DOMAIN t : HeightWordNums(t, i) # {}}
        height_cm ==
            IF hs # {}
            THEN LET i == Least(hs)
                 IN  PyInt(_clamp_int(DigitsVal(SubSeq(t, i, i + Greatest(HeightCmLens(t, i)) - 1)),
                                      130, 210))
            ELSE IF ws # {}
            THEN LET nums == HeightWordNums(t, Least(ws))
                     n == CHOOSE n \in nums : \A m \in nums : m[2] <= n[2]
                 IN  PyInt(_clamp_int(DigitsVal(SubSeq(t, n[1], n[1] + n[2] - 1)), 130, 210))
            ELSE Absent
        experience ==
            IF ExperienceLike(t, {<<"n","o">>, <<"z","e","r","o">>, <<"n","e","v","e","r">>}, {<<<<"b","r","a","n","d">>, <<"n","e","w">>>>})
            THEN PyStr(no_experience)
            ELSE IF ExperienceLike(t, {<<"l","i","t","t","l","e">>, <<"s","o","m","e">>}, {<<<<"a">>, <<"b","i","t">>>>})
                    \/ Contains(t, <<"d","i","r","t">>)
            THEN PyStr(little_experience)
            ELSE Absent
        types == _norm_types(t)
        ks == {i \in DOMAIN t : KDigits(t, i) # {}}
        k == IF ks # {}
             THEN PyInt(_clamp_int(DigitVal(t[Least(KDigits(t, Least(ks)))]), 1, 6))
             ELSE IF NoValidK(p) THEN PyInt(2)
             ELSE Absent
    IN  Patch(experience, height_cm, budget_usd,
              IF types # <<>> THEN PyList(types) ELSE Absent, k, Absent)

\* \b\d{2,4}\s*cc\b
HasCc(t) ==
    \E i \in DOMAIN t :
        /\ Boundary(t, i)
        /\ \E n \in 2..4 :
               /\ DigitsAt(t, i, n)
               /\ \E j \in AfterSpaces(t, i + n) : LitAt(t, j, <<"c","c">>) /\ Boundary(t, j + 2)

\* \b(recommend|suggest|what.*bike|show\s+me)\b
HasRecommendWord(t) ==
    \E i \in DOMAIN t :
        /\ Boundary(t, i)
        /\ \E e \in EndsOfAny(t, i, {<<"r","e","c","o","m","m","e","n","d">>, <<"s","u","g","g","e","s","t">>})
                    \cup UNION {UNION {EndsOfLit(t, j, <<"b","i","k","e">>) : j \in m..Len(t)} :
                                  m \in EndsOfLit(t, i, <<"w","h","a","t">>)}
                    \cup UNION {UNION {EndsOfLit(t, j, <<"m","e">>) : j \in AfterSpaces(t, m) \ {m}} :
                                  m \in EndsOfLit(t, i, <<"s","h","o","w">>)} :
               Boundary(t, e)

\* chat_nlu._looks_like_recommend
_looks_like_recommend(text) ==
    HasRecommendWord(Lower(text)) \/ HasCc(Lower(text)) \/ _norm_types(text) # <<>>

\* chat_nlu._fallback_plan
_fallback_plan(text, p) ==
    LET patch == _parse_patch_fallback(text, p)
    IN  Plan(PyStr(MOTO_DOMAIN),
             (IF patch # NoPatch THEN <<UpdateProfile(patch)>> ELSE <<>>)
             \o (IF _looks_like_recommend(text) \/ patch # NoPatch THEN <<Recommend>> ELSE <<>>))

MAX_ITEMS == 2

moto_recommendation == <<"m","o","t","o","_","r","e","c","o","m","m","e","n","d","a","t","i","o","n">>

\* (s or "").strip().lower() of an action type; the types of the plans of
\* the model are strings or missing
TypeName(s) == IF Get(s).t = "str" THEN Lower(Strip(Get(s).s)) ELSE <<>>

\* chat_nlu._is_update_profile
_is_update_profile(s) == TypeName(s) \in {<<"u","p","d","a","t","e","_","p","r","o","f","i","l","e">>, <<"u","p","d","a","t","e","p","r","o","f","i","l","e">>, <<"u","p","d","a","t","e">>}

\* chat_nlu._is_recommend
_is_recommend(s) ==
    TypeName(s) \in {<<"r","e","c","o","m","m","e","n","d">>, <<"r","e","c","o","m","m","e","n","d","a","t","i","o","n">>, <<"r","e","c","s">>, <<"r","u","n">>, <<"r","e","r","u","n">>}

\* the enum an entry of bike_types is mapped to (chat_nlu.py 171-177)
TypeAlias(xl) ==
    CASE xl \in {kw_adv, adventure} -> adventure
      [] xl \in {kw_dual, kw_dual_sport, <<"d","u","a","l"," ","s","p","o","r","t">>} -> dual_sport
      [] xl \in {kw_sport, sportbike} -> sportbike
      [] xl \in {<<"t","o","u","r">>, touring} -> touring
      [] xl \in {<<"s","t","d">>, standard} -> standard
      [] OTHER -> xl

\* the loop of _normalize_types_list over entries that are strings or falsy
RECURSIVE NormalTypesList(_, _)
NormalTypesList(bt, acc) ==
    IF bt = <<>> THEN acc
    ELSE LET x == Head(bt)
             xl == TypeAlias(IF x.t = "str" THEN Strip(Lower(x.s)) ELSE <<>>)
         IN  NormalTypesList(Tail(bt),
                             IF xl \in ALLOWED_TYPES /\ \A i \in DOMAIN acc : acc[i] # PyStr(xl)
                             THEN Append(acc, PyStr(xl))
                             ELSE acc)

\* chat_nlu._normalize_types_list: None for "no type left"
_normalize_types_list(bt) ==
    IF ~Truthy(bt) THEN None
    ELSE LET types == NormalTypesList(IF bt.t = "str" THEN <<bt>> ELSE bt.l, <<>>)
         IN  IF types = <<>> THEN None ELSE PyList(types)

\* patch_accum.update(p)
PatchUpdate(acc, p) ==
    Patch(GetOr(p.experience, acc.experience), GetOr(p.height_cm, acc.height_cm),
          GetOr(p.budget_usd, acc.budget_usd), GetOr(p.bike_types, acc.bike_types),
          GetOr(p.k, acc.k), GetOr(p.engine_cc_min, acc.engine_cc_min))

\* chat_nlu.py 208-212: bike_types normalised, or popped when nothing is left
NormalPatch(p) ==
    LET bt_norm == _normalize_types_list(p.bike_types)
    IN  [p EXCEPT !.bike_types = IF Truthy(bt_norm) THEN bt_norm ELSE Absent]

\* a non-blank string
IsName(v) == v.t = "str" /\ Strip(v.s) # <<>>

\* chat_nlu.py 240-257: the items with a label keep label and specs; an item
\* of the model has no id, mfr_domain, official_url or image_query
RECURSIVE NormItems(_)
NormItems(its) ==
    IF its = <<>> THEN <<>>
    ELSE LET it == Head(its)
         IN  (IF IsName(it.label)
              THEN <<External(PyStr(Strip(it.label.s)), Absent, Absent, Absent, it.specs,
                              Absent, Absent)>>
              ELSE <<>>)
             \o NormItems(Tail(its))

\* [pid for pid in pin_ids if isinstance(pid, str) and pid.strip()]
RECURSIVE NamedPins(_)
NamedPins(pins) ==
    IF pins = <<>> THEN <<>>
    ELSE (IF IsName(Head(pins)) THEN <<Head(pins)>> ELSE <<>>) \o NamedPins(Tail(pins))

\* recommend_payload of one RECOMMEND action (chat_nlu.py 236-260)
Payload(act) ==
    LET pins == IF Truthy(act.pin_ids) THEN act.pin_ids.l ELSE <<>>
        norm_items == NormItems(IF Truthy(act.items) THEN act.items.l ELSE <<>>)
    IN  [pin_ids |-> IF pins # <<>> THEN PyList(NamedPins(pins)) ELSE Absent,
         items |-> IF norm_items # <<>> THEN PyList(norm_items) ELSE Absent]

NoPayload == [pin_ids |-> Absent, items |-> Absent]

\* the loop over actions_in (chat_nlu.py 192-260): st holds patch_accum and
\* recommend_payload.  A patch of the model has no legacy key, an action no
\* criteria or filters.
RECURSIVE Accumulate(_, _)
Accumulate(acts, st) ==
    IF acts = <<>> THEN st
    ELSE LET act == Head(acts)
         IN  Accumulate(Tail(acts),
                        IF _is_update_profile(act.type)
                        THEN [st EXCEPT !.patch = PatchUpdate(st.patch, NormalPatch(act.patch))]
                        ELSE IF _is_recommend(act.type)
                        THEN [st EXCEPT !.payload = Payload(act)]
                        ELSE st)

\* l[:n] of a list value, Absent kept
Capped(v, n) == IF v.t = "list" THEN PyList(SubSeq(v.l, 1, Min(n, Len(v.l)))) ELSE v

\* chat_nlu._normalize_keys
_normalize_keys(pl, p) ==
    LET st == Accumulate(pl.actions, [patch |-> NoPatch, payload |-> NoPayload])
        patch_accum == IF st.patch.k.t = "absent" /\ NoValidK(p)
                       THEN [st.patch EXCEPT !.k = PyInt(2)]
                       ELSE st.patch
        k_eff == GetOr(patch_accum.k, PyInt(2))
        k_cap == IF k_eff.t \in {"int", "bool"} THEN Max(1, Min(MAX_ITEMS, k_eff.n))
                 ELSE MAX_ITEMS
    IN  Plan(Or(pl.topic, PyStr(moto_recommendation)),
             (IF patch_accum # NoPatch THEN <<UpdateProfile(patch_accum)>> ELSE <<>>)
             \o <<RecommendWith(Capped(st.payload.pin_ids, k_cap),
                                Capped(st.payload.items, k_cap))>>)

\* chat_nlu.make_plan: the client answers with a plan, or there is no client,
\* or the call or json.loads raises and the fallback runs
chat_nlu_make_plan(msg, p, l) ==
    LET text == Strip(msg)
    IN  IF ~MOTO_TERMS(text) THEN Plan(PyStr(OFFTOPIC), <<>>)
        ELSE IF l.t = "plan" THEN _normalize_keys(l.plan, p)
        ELSE _fallback_plan(text, p)

-----------------------------------------------------------------------------
(* The two planners on one message: nlu.make_plan, which app.py imports, and
   chat_nlu.make_plan, which tests/test_chat_nlu.py is written against. *)

InitNlu ==
    /\ pc = "make_plan"
    /\ bikes = Catalog
    /\ profile \in ChatProfilePool
    /\ message \in MessagePool
    /\ llm \in LlmPool
    /\ picked = <<>>
    /\ pin_ids = <<>>
    /\ external_items = <<>>
    /\ plan = NoPlan
    /\ response = NoResponse
    /\ Idle

\* plan = nlu.make_plan(msg, profile)
NluMakePlan ==
    /\ pc = "make_plan"
    /\ plan' = make_plan(message, llm)
    /\ pc' = "nlu_planned"
    /\ UNCHANGED <<bikes, profile, prof, pin_ids, external_items, picked, seen, out, items,
                   filtered, ranked, shortlist, raised, message, llm, response>>

\* plan = chat_nlu.make_plan(message, profile)
ChatNluMakePlan ==
    /\ pc = "make_plan"
    /\ plan' = chat_nlu_make_plan(message, profile, llm)
    /\ pc' = "chat_nlu_planned"
    /\ UNCHANGED <<bikes, profile, prof, pin_ids, external_items, picked, seen, out, items,
                   filtered, ranked, shortlist, raised, message, llm, response>>

NextNlu == NluMakePlan \/ ChatNluMakePlan

SpecNlu == InitNlu /\ [][NextNlu]_vars

\* a planner has returned
Planned == pc \in {"nlu_planned", "chat_nlu_planned"}

\* the messages of the pool that are not about motorcycles
OffTopicMessages == {msg_script, msg_power}

\* C16: for a message that is not about motorcycles the planner returns the
\* topic OFFTOPIC and no action, whatever the profile and the state of the LLM
C16_OffTopicGuard ==
    Planned /\ message \in OffTopicMessages
        => plan.topic = PyStr(OFFTOPIC) /\ plan.actions = <<>>

\* the messages of the pool that state a profile value and ask for a
\* recommendation
ProfileAndRecommendMessages == {msg_full, msg_naked}

\* C17: for a message that states a profile value and asks for a
\* recommendation the plan has topic MOTO_DOMAIN or AMBIGUOUS, an
\* UPDATE_PROFILE action and a RECOMMEND action, every UPDATE_PROFILE before
\* the RECOMMEND
C17_ExtractAndRecommend ==
    Planned /\ message \in ProfileAndRecommendMessages
        => /\ plan.topic \in {PyStr(MOTO_DOMAIN), PyStr(AMBIGUOUS)}
           /\ HasUpdateProfile
           /\ HasRecommend
           /\ \A i, j \in DOMAIN plan.actions :
                  IsUpdateProfile(plan.actions[i]) /\ IsRecommend(plan.actions[j]) => i < j

\* the experience the rule names: one of the two values whatever its case,
\* else the default
NormalExperience(v) ==
    IF v.t = "str" /\ Lower(v.s) \in EXPERIENCES THEN PyStr(Lower(v.s))
    ELSE PyStr(no_experience)

\* C21: the experience of the normalised profile is no_experience or
\* little_experience when the input is one of them in any case, and the
\* default no_experience for every other input, null and non-strings included
C21_ExperienceRule ==
    pc \in {"validated", "cleaned"} /\ raised = "none"
        => prof.experience = NormalExperience(profile.experience)

====
